---------------------------- MODULE Spec2Model ----------------------------
(***************************************************************************)
(* The recognition-driven control loop of a_bot_2.0: BotEngine             *)
(* (src/core/bot_engine.py) driven by one controlling thread that calls    *)
(* start() and stop(), and by the worker threads start() spawns.           *)
(*                                                                         *)
(* Every shared-memory access of a thread (the run flag, self.state, one   *)
(* entry of self.stats, an emitted signal) is one step; the code between   *)
(* two such accesses, which touches only the thread's own locals and the   *)
(* device, is folded into the step that follows it.                        *)
(*                                                                         *)
(* Spec and LiveSpec are the engine under every interleaving of the        *)
(* controlling thread and the workers.  SeqSpec is the run of one worker   *)
(* with each loop iteration taken as one step and what the handler         *)
(* observed kept beside its result.  WaitSpec and WaitLive follow          *)
(* ImageMatcher.wait_for_images (src/core/image_matcher.py) poll by poll,  *)
(* with the clock, for the calls one handler invocation makes.  MatchSpec  *)
(* is ImageMatcher.find_in_screen on pixels, with the template cache and   *)
(* the template files, and CacheSpec is ImageMatcher.load_template while   *)
(* template files are replaced.  PairSpec runs two engines on the same     *)
(* screenshots, one of which lacks a template file.  GuiSpec is the        *)
(* engine driven through the two buttons of MainWindow                     *)
(* (src/gui/main_window.py).                                               *)
(***************************************************************************)
EXTENDS Integers, Sequences, FiniteSets, TLC

(***************************************************************************)
(* Bounds of the model.                                                    *)
(***************************************************************************)
\* worker threads that may be alive at the same time (a finished thread's
\* slot is used again by a later start())
MaxWorkers == 2
\* loop iterations begun by all workers together
MaxRounds == 3
\* the same under LiveSpec
MaxLiveRounds == 2
\* screenshots one wait_for_images call polls before its deadline passes
MaxPolls == 2

\* the longest a capture takes, in seconds
MaxLatency == 2
\* timeouts and check intervals of the wait_for_images calls that are not a
\* handler's: -MaxPast..MaxTimeout and 1..MaxInterval seconds
MaxPast == 2
MaxTimeout == 3
MaxInterval == 2

Workers == 1..MaxWorkers

(***************************************************************************)
(* BotState, the statistics and the click coordinates.                     *)
(***************************************************************************)
BotState ==
    {"IDLE", "STARTING", "SELECTING_BATTLE", "CONFIRMING_BATTLE", "IN_BATTLE",
     "BATTLE_ENDED", "CONNECTION_LOST", "RECONNECTING", "ERROR"}

StatNames ==
    {"battles_started", "victories", "defeats", "connection_losses", "errors"}

click_coords ==
    [start_battle |-> <<1227, 832>>,
     confirm_battle |-> <<1430, 830>>,
     auto_battle |-> <<66, 642>>,
     exit_after_win |-> <<743, 819>>,
     refresh_opponents |-> <<215, 826>>,
     reconnect_button |-> <<803, 821>>]

\* the states self.state_actions has a handler for
state_actions == BotState

\* MainWindow.__init__ hands the engine its signals before any start()
signals == TRUE

(***************************************************************************)
(* The device: what capture_screen() may return.  A screenshot is          *)
(* identified with the set of templates find_in_screen finds on it.        *)
(***************************************************************************)
Templates ==
    {"waiting_for_server.png", "contact_us.png", "cheak.png",
     "confirm_battle.png", "auto_battle.png", "victory.png", "defeat.png"}

NoCapture == [kind |-> "none", shows |-> {}]
EmptyCapture == [kind |-> "empty", shows |-> {}]

Image(s) == [kind |-> "img", shows |-> s]

Captures == {NoCapture, EmptyCapture} \cup {Image(s) : s \in SUBSET Templates}

\* the captures that differ for a handler that only asks about `names`
CapturesOver(names) ==
    {NoCapture, EmptyCapture} \cup {Image(s) : s \in SUBSET names}

\* `if screen_data:` -- None and b"" are both falsy
Truthy(c) == c.kind = "img"

\* ImageMatcher.find_in_screen: bytes that do not decode give no match
find_in_screen(c, name) == c.kind = "img" /\ name \in c.shows

Range(s) == {s[i] : i \in DOMAIN s}

\* the first name of image_list found on screenshot c, "-" when none is
RECURSIVE FirstFound(_, _)
FirstFound(c, image_list) ==
    IF image_list = <<>> THEN "-"
    ELSE IF find_in_screen(c, Head(image_list)) THEN Head(image_list)
    ELSE FirstFound(c, Tail(image_list))

\* ImageMatcher.wait_for_images over the screenshots `polls` that
\* screen_provider yields before the deadline: the name returned, "-" for
\* (None, None)
RECURSIVE wait_for_images(_, _)
wait_for_images(polls, image_list) ==
    IF polls = <<>> THEN "-"
    ELSE IF Head(polls).kind = "none" THEN wait_for_images(Tail(polls), image_list)
    ELSE IF FirstFound(Head(polls), image_list) # "-"
         THEN FirstFound(Head(polls), image_list)
    ELSE wait_for_images(Tail(polls), image_list)

PollSeqs(image_list) ==
    UNION {[1..n -> CapturesOver(Range(image_list))] : n \in 1..MaxPolls}

\* every result a wait_for_images call of a handler can have
WaitResults(image_list) ==
    {wait_for_images(p, image_list) : p \in PollSeqs(image_list)}


(***************************************************************************)
(* The state handlers.  A handler invocation is cut where it increments a  *)
(* statistic: what it does before (Pre) and after (Post) the increment.    *)
(* An outcome is a return value, an exception raised by a device call, or  *)
(* (Pre only) the statistic to increment; `taps` are the taps issued.      *)
(***************************************************************************)
Ret(next, taps) == [k |-> "ret", next |-> next, taps |-> taps, ctr |-> "-"]
Inc(ctr, taps) == [k |-> "inc", next |-> "-", taps |-> taps, ctr |-> ctr]
Raise == [k |-> "raise", next |-> "-", taps |-> <<>>, ctr |-> "-"]
\* mutant of check_connection_issues: only the waiting-for-server marker
check_connection_issues_WaitingOnly(c) ==
    find_in_screen(c, "waiting_for_server.png")

check_connection_issues(c) ==
    \/ find_in_screen(c, "waiting_for_server.png")
    \/ find_in_screen(c, "contact_us.png")
\* mutant of perform_emergency_clicks: exit is tapped before screen-center
perform_emergency_clicks_ExitFirst == << <<49, 50>>, <<743, 819>>, <<588, 825>>, <<215, 826>> >>

perform_emergency_clicks == << <<49, 50>>, <<588, 825>>, <<743, 819>>, <<215, 826>> >>

\* the time.sleep that follows each of the four emergency taps, in seconds
emergency_delays == <<2, 2, 10, 2>>

handle_idle == Ret("IDLE", <<>>)

\* mutant of handle_starting: a failed capture gives ERROR
handle_starting_ErrorOnNoCapture(c) ==
    IF Truthy(c)
    THEN IF check_connection_issues(c) THEN Ret("CONNECTION_LOST", <<>>)
         ELSE IF find_in_screen(c, "cheak.png") THEN Ret("SELECTING_BATTLE", <<>>)
         ELSE IF find_in_screen(c, "confirm_battle.png") THEN Ret("CONFIRMING_BATTLE", <<>>)
         ELSE IF find_in_screen(c, "auto_battle.png") THEN Ret("IN_BATTLE", <<>>)
         ELSE IF find_in_screen(c, "victory.png") THEN Ret("BATTLE_ENDED", <<>>)
         ELSE IF find_in_screen(c, "defeat.png") THEN Ret("BATTLE_ENDED", <<>>)
         ELSE Ret("STARTING", <<>>)
    ELSE Ret("ERROR", <<>>)

\* c: the one screenshot the handler takes
handle_starting(c) ==
    IF Truthy(c)
    THEN IF check_connection_issues(c) THEN Ret("CONNECTION_LOST", <<>>)
         ELSE IF find_in_screen(c, "cheak.png") THEN Ret("SELECTING_BATTLE", <<>>)
         ELSE IF find_in_screen(c, "confirm_battle.png") THEN Ret("CONFIRMING_BATTLE", <<>>)
         ELSE IF find_in_screen(c, "auto_battle.png") THEN Ret("IN_BATTLE", <<>>)
         ELSE IF find_in_screen(c, "victory.png") THEN Ret("BATTLE_ENDED", <<>>)
         ELSE IF find_in_screen(c, "defeat.png") THEN Ret("BATTLE_ENDED", <<>>)
         ELSE Ret("STARTING", <<>>)
    ELSE Ret("STARTING", <<>>)
\* mutant of handle_selecting_battle: the handler does not tap
handle_selecting_battle_NoTap == Ret("CONFIRMING_BATTLE", <<>>)

handle_selecting_battle == Ret("CONFIRMING_BATTLE", <<click_coords.start_battle>>)
\* mutant of handle_confirming_battle_pre: the battle is not counted when
\* it is confirmed
handle_confirming_battle_pre_CountsNothing ==
    Ret("IN_BATTLE", <<click_coords.confirm_battle>>)

handle_confirming_battle_pre == Inc("battles_started", <<click_coords.confirm_battle>>)
\* mutant of handle_confirming_battle_post: no re-check of connection issues
handle_confirming_battle_post_NoRecheck(r, c) ==
    IF r # "-" THEN Ret("IN_BATTLE", <<>>)
    ELSE Ret("ERROR", <<>>)

\* r: the result of the wait for auto_battle.png, c: the re-check screenshot
handle_confirming_battle_post(r, c) ==
    IF r # "-" THEN Ret("IN_BATTLE", <<>>)
    ELSE IF Truthy(c) /\ check_connection_issues(c) THEN Ret("CONNECTION_LOST", <<>>)
    ELSE Ret("ERROR", <<>>)
\* mutant of handle_in_battle: a failed re-check capture gives ERROR
handle_in_battle_ErrorOnNoCapture(r, c) ==
    IF r # "-" THEN Ret("BATTLE_ENDED", <<click_coords.auto_battle>>)
    ELSE IF ~Truthy(c) THEN Ret("ERROR", <<click_coords.auto_battle>>)
    ELSE IF check_connection_issues(c)
         THEN Ret("CONNECTION_LOST", <<click_coords.auto_battle>>)
    ELSE Ret("STARTING", <<click_coords.auto_battle>> \o perform_emergency_clicks)
\* mutant of handle_in_battle: the emergency clicks come before the
\* connection check
handle_in_battle_ClicksBeforeCheck(r, c) ==
    IF r # "-" THEN Ret("BATTLE_ENDED", <<click_coords.auto_battle>>)
    ELSE IF Truthy(c) /\ check_connection_issues(c)
         THEN Ret("CONNECTION_LOST", <<click_coords.auto_battle>> \o perform_emergency_clicks)
    ELSE Ret("STARTING", <<click_coords.auto_battle>> \o perform_emergency_clicks)

\* r: the result of the wait for victory/defeat, c: the re-check screenshot
handle_in_battle(r, c) ==
    IF r # "-" THEN Ret("BATTLE_ENDED", <<click_coords.auto_battle>>)
    ELSE IF Truthy(c) /\ check_connection_issues(c)
         THEN Ret("CONNECTION_LOST", <<click_coords.auto_battle>>)
    ELSE Ret("STARTING", <<click_coords.auto_battle>> \o perform_emergency_clicks)
\* mutant of handle_battle_ended_pre: the defeat marker is tested first
handle_battle_ended_pre_DefeatFirst(c) ==
    IF ~Truthy(c) THEN Ret("ERROR", <<>>)
    ELSE IF find_in_screen(c, "defeat.png") THEN Inc("defeats", <<>>)
    ELSE IF find_in_screen(c, "victory.png") THEN Inc("victories", <<>>)
    ELSE Ret("STARTING", <<>>)

handle_battle_ended_pre(c) ==
    IF ~Truthy(c) THEN Ret("ERROR", <<>>)
    ELSE IF find_in_screen(c, "victory.png") THEN Inc("victories", <<>>)
    ELSE IF find_in_screen(c, "defeat.png") THEN Inc("defeats", <<>>)
    ELSE Ret("STARTING", <<>>)
\* mutant of handle_battle_ended_post: one tap after a defeat as after a victory
handle_battle_ended_post_OneTap(ctr) ==
    Ret("STARTING", <<click_coords.exit_after_win>>)

handle_battle_ended_post(ctr) ==
    IF ctr = "victories" THEN Ret("STARTING", <<click_coords.exit_after_win>>)
    ELSE Ret("STARTING", <<click_coords.exit_after_win, click_coords.refresh_opponents>>)

handle_connection_lost_pre == Inc("connection_losses", <<>>)
\* mutant of handle_connection_lost_post: no wait for the marker
handle_connection_lost_post_FirstScreenshotOnly(c, r) ==
    IF ~Truthy(c) THEN Ret("ERROR", <<>>)
    ELSE IF find_in_screen(c, "contact_us.png")
         THEN Ret("RECONNECTING", <<click_coords.reconnect_button>>)
    ELSE Ret("ERROR", <<>>)

\* c: the first screenshot, r: the result of the wait for contact_us.png
handle_connection_lost_post(c, r) ==
    IF ~Truthy(c) THEN Ret("ERROR", <<>>)
    ELSE IF find_in_screen(c, "contact_us.png")
         THEN Ret("RECONNECTING", <<click_coords.reconnect_button>>)
    ELSE IF r # "-" THEN Ret("RECONNECTING", <<click_coords.reconnect_button>>)
    ELSE Ret("ERROR", <<>>)

\* ra, rb, rc: the results of the three waits, in the order they are made
handle_reconnecting(ra, rb, rc) ==
    IF ra = "cheak.png" THEN Ret("SELECTING_BATTLE", <<>>)
    ELSE IF ra = "confirm_battle.png" THEN Ret("CONFIRMING_BATTLE", <<>>)
    ELSE IF rb \in {"victory.png", "defeat.png"} THEN Ret("BATTLE_ENDED", <<>>)
    ELSE IF rc = "auto_battle.png" THEN Ret("IN_BATTLE", <<>>)
    ELSE Ret("STARTING", <<>>)
\* mutant of handle_error: the handler returns ERROR
handle_error_StaysInError == Ret("ERROR", <<>>)
\* mutant of handle_error: the handler taps the reconnect button
handle_error_TapsReconnect == Ret("STARTING", <<click_coords.reconnect_button>>)

handle_error == Ret("STARTING", <<>>)

ConnectionTemplates == {"waiting_for_server.png", "contact_us.png"}

\* what the handler of state s can do up to its increment, over every
\* behaviour of the device (a tap or a capture may raise)
PreOutcomes(s) ==
    CASE s = "IDLE" -> {handle_idle}
      [] s = "STARTING" -> {handle_starting(c) : c \in Captures} \cup {Raise}
      [] s = "SELECTING_BATTLE" -> {handle_selecting_battle, Raise}
      [] s = "CONFIRMING_BATTLE" -> {handle_confirming_battle_pre, Raise}
      [] s = "IN_BATTLE" ->
            {handle_in_battle(r, c) :
                r \in WaitResults(<<"victory.png", "defeat.png">>),
                c \in CapturesOver(ConnectionTemplates)} \cup {Raise}
      [] s = "BATTLE_ENDED" ->
            {handle_battle_ended_pre(c) :
                c \in CapturesOver({"victory.png", "defeat.png"})} \cup {Raise}
      [] s = "CONNECTION_LOST" -> {handle_connection_lost_pre}
      [] s = "RECONNECTING" ->
            {handle_reconnecting(ra, rb, rc) :
                ra \in WaitResults(<<"cheak.png", "confirm_battle.png">>),
                rb \in WaitResults(<<"victory.png", "defeat.png">>),
                rc \in WaitResults(<<"auto_battle.png">>)} \cup {Raise}
      [] s = "ERROR" -> {handle_error}

\* what the handler of state s can do after it has incremented ctr
PostOutcomes(s, ctr) ==
    CASE s = "CONFIRMING_BATTLE" ->
            {handle_confirming_battle_post(r, c) :
                r \in WaitResults(<<"auto_battle.png">>),
                c \in CapturesOver(ConnectionTemplates)} \cup {Raise}
      [] s = "BATTLE_ENDED" -> {handle_battle_ended_post(ctr), Raise}
      [] s = "CONNECTION_LOST" ->
            {handle_connection_lost_post(c, r) :
                c \in CapturesOver({"contact_us.png"}),
                r \in WaitResults(<<"contact_us.png">>)} \cup {Raise}
      [] OTHER -> {}

(***************************************************************************)
(* A whole handler invocation as a function of what the handler observes:  *)
(* the screenshot it takes itself (c) and the results of the               *)
(* wait_for_images calls it makes (ra, rb, rc, in the order of the calls). *)
(***************************************************************************)
\* a capture the invocation does not make, a wait it does not make
NotTaken == [kind |-> "unused", shows |-> {}]
NoWait == "n/a"

Obs(c, ra, rb, rc) == [c |-> c, ra |-> ra, rb |-> rb, rc |-> rc]

NoObs == Obs(NotTaken, NoWait, NoWait, NoWait)

\* what the handler of state s may observe; a capture or a wait the handler
\* does not reach is NotTaken / NoWait
Observations(s) ==
    CASE s = "STARTING" -> {Obs(c, NoWait, NoWait, NoWait) : c \in Captures}
      [] s = "CONFIRMING_BATTLE" ->
            {Obs(NotTaken, ra, NoWait, NoWait) :
                ra \in WaitResults(<<"auto_battle.png">>) \ {"-"}}
            \cup {Obs(c, "-", NoWait, NoWait) : c \in CapturesOver(ConnectionTemplates)}
      [] s = "IN_BATTLE" ->
            {Obs(NotTaken, ra, NoWait, NoWait) :
                ra \in WaitResults(<<"victory.png", "defeat.png">>) \ {"-"}}
            \cup {Obs(c, "-", NoWait, NoWait) : c \in CapturesOver(ConnectionTemplates)}
      [] s = "BATTLE_ENDED" ->
            {Obs(c, NoWait, NoWait, NoWait) :
                c \in CapturesOver({"victory.png", "defeat.png"})}
      [] s = "CONNECTION_LOST" ->
            {Obs(c, NoWait, NoWait, NoWait) :
                c \in {NoCapture, EmptyCapture, Image({"contact_us.png"})}}
            \cup {Obs(Image({}), ra, NoWait, NoWait) :
                    ra \in WaitResults(<<"contact_us.png">>)}
      [] s = "RECONNECTING" ->
            {Obs(NotTaken, ra, NoWait, NoWait) :
                ra \in WaitResults(<<"cheak.png", "confirm_battle.png">>) \ {"-"}}
            \cup {Obs(NotTaken, "-", rb, NoWait) :
                    rb \in WaitResults(<<"victory.png", "defeat.png">>) \ {"-"}}
            \cup {Obs(NotTaken, "-", "-", rc) : rc \in WaitResults(<<"auto_battle.png">>)}
      [] OTHER -> {NoObs}

\* the invocation of the handler of state s that observes o: the state it
\* returns, the taps it issues and the statistics it increments, in order
Invoke(s, o) ==
    LET pre ==
            CASE s = "IDLE" -> handle_idle
              [] s = "STARTING" -> handle_starting(o.c)
              [] s = "SELECTING_BATTLE" -> handle_selecting_battle
              [] s = "CONFIRMING_BATTLE" -> handle_confirming_battle_pre
              [] s = "IN_BATTLE" -> handle_in_battle(o.ra, o.c)
              [] s = "BATTLE_ENDED" -> handle_battle_ended_pre(o.c)
              [] s = "CONNECTION_LOST" -> handle_connection_lost_pre
              [] s = "RECONNECTING" -> handle_reconnecting(o.ra, o.rb, o.rc)
              [] s = "ERROR" -> handle_error
        post ==
            CASE s = "CONFIRMING_BATTLE" -> handle_confirming_battle_post(o.ra, o.c)
              [] s = "BATTLE_ENDED" -> handle_battle_ended_post(pre.ctr)
              [] s = "CONNECTION_LOST" -> handle_connection_lost_post(o.c, o.ra)
    IN  IF pre.k = "ret"
        THEN [next |-> pre.next, taps |-> pre.taps, incs |-> <<>>]
        ELSE [next |-> post.next, taps |-> pre.taps \o post.taps, incs |-> <<pre.ctr>>]

\* the statistics after the increments incs (at most one per invocation)
Bump(st, incs) ==
    IF incs = <<>> THEN st ELSE [st EXCEPT ![incs[1]] = @ + 1]

\* where the handler of state s can raise: before it has incremented
\* anything (<<>>), or after its increment (<<the statistic>>)
RaisePoints(s) ==
    {<<>> : o \in {p \in PreOutcomes(s) : p.k = "raise"}}
    \cup {<<p.ctr>> : p \in {q \in PreOutcomes(s) :
                                q.k = "inc" /\ Raise \in PostOutcomes(s, q.ctr)}}

\* the record kept of an invocation
Invocation(handled, obs, next, taps, before, raised) ==
    [handled |-> handled, obs |-> obs, next |-> next, taps |-> taps,
     before |-> before, raised |-> raised]

NoInvocation ==
    Invocation("-", NoObs, "-", <<>>, [n \in StatNames |-> 0], FALSE)

(***************************************************************************)
(* The wait_for_images calls: their arguments, in seconds.                 *)
(***************************************************************************)
WaitCall(image_list, timeout, check_interval) ==
    [image_list |-> image_list, timeout |-> timeout, check_interval |-> check_interval]

NoCall == WaitCall(<<>>, 0, 0)

\* the wait_for_images calls the handler of state s makes, in order; it
\* goes on to the next one only when a call returned (None, None)
HandlerWaits(s) ==
    CASE s = "CONFIRMING_BATTLE" -> <<WaitCall(<<"auto_battle.png">>, 50, 3)>>
      [] s = "IN_BATTLE" -> <<WaitCall(<<"victory.png", "defeat.png">>, 120, 3)>>
      [] s = "CONNECTION_LOST" -> <<WaitCall(<<"contact_us.png">>, 60, 3)>>
      [] s = "RECONNECTING" ->
            <<WaitCall(<<"cheak.png", "confirm_battle.png">>, 5, 1),
              WaitCall(<<"victory.png", "defeat.png">>, 5, 1),
              WaitCall(<<"auto_battle.png">>, 5, 1)>>
      [] OTHER -> <<>>

\* calls with small arguments, a timeout <= 0 among them
OtherCalls ==
    {WaitCall(<<"victory.png", "defeat.png">>, t, i) :
        t \in (0 - MaxPast)..MaxTimeout, i \in 1..MaxInterval}

Max(a, b) == IF a >= b THEN a ELSE b

(***************************************************************************)
(* ImageMatcher.find_in_screen on pixels.  An image is a row of pixels;    *)
(* the similarity of a window of the screenshot to the template is the     *)
(* share of the template's pixels the window agrees with, in percent.      *)
(***************************************************************************)
\* the widest screenshot and the widest template, in pixels
MaxScreen == 3
MaxTemplate == 3

Pixels == {0, 1}

\* `threshold: float = 0.8`, in percent
DefaultThreshold == 80

Thresholds == {50, DefaultThreshold, 100}

Rows(n) == UNION {[1..k -> Pixels] : k \in 1..n}

\* a decoded image that is None
NoImage == <<>>

\* no location: the None find_in_screen returns
NoMatch == [matched |-> FALSE, x |-> 0]

MatchAt(x) == [matched |-> TRUE, x |-> x]

\* what a screen_provider may return: None, b"", bytes that are no image,
\* the bytes of an image
ScreenData ==
    {[kind |-> k, pixels |-> NoImage] : k \in {"none", "empty", "garbage"}}
    \cup {[kind |-> "image", pixels |-> r] : r \in Rows(MaxScreen)}

\* a file of the template directory: not there, not an image, an image
MissingFile == [kind |-> "missing", pixels |-> NoImage]
CorruptFile == [kind |-> "corrupt", pixels |-> NoImage]

ImageFile(r) == [kind |-> "image", pixels |-> r]

FileStates == {MissingFile, CorruptFile} \cup {ImageFile(r) : r \in Rows(MaxTemplate)}

\* the template files the bot is shipped with
Installed ==
    [n \in Templates |->
        CASE n = "waiting_for_server.png" -> ImageFile(<<1, 1, 1>>)
          [] n = "contact_us.png" -> ImageFile(<<0, 0, 0>>)
          [] n = "cheak.png" -> ImageFile(<<0, 0>>)
          [] n = "confirm_battle.png" -> ImageFile(<<1, 1>>)
          [] n = "auto_battle.png" -> ImageFile(<<0, 1>>)
          [] n = "victory.png" -> ImageFile(<<1, 0>>)
          [] n = "defeat.png" -> ImageFile(<<0, 1, 0>>)]

\* `self.templates: Dict[str, np.ndarray] = {}`; NoImage: no entry
NoTemplates == [n \in Templates |-> NoImage]

\* `np.frombuffer` and `cv2.imdecode`: None or an exception for bytes that
\* are no image, and find_in_screen returns None on either
imdecode(data) == IF data.kind = "image" THEN data.pixels ELSE NoImage
\* mutant of imread: a file that is no image reads as a one-pixel image
imread_BlankForCorrupt(dir, name) ==
    IF dir[name].kind = "image" THEN dir[name].pixels
    ELSE IF dir[name].kind = "corrupt" THEN <<0>>
    ELSE NoImage

\* `cv2.imread(template_path, cv2.IMREAD_COLOR)`: None for a file that is
\* not there or is no image
imread(dir, name) ==
    IF dir[name].kind = "image" THEN dir[name].pixels ELSE NoImage
\* mutant of load_template: any cached template serves any name
load_template_AnyCached(cache, dir, name) ==
    IF \E n \in Templates : cache[n] # NoImage
    THEN [template |-> cache[CHOOSE n \in Templates : cache[n] # NoImage],
          templates |-> cache]
    ELSE IF imread(dir, name) = NoImage
    THEN [template |-> NoImage, templates |-> cache]
    ELSE [template |-> imread(dir, name),
          templates |-> [cache EXCEPT ![name] = imread(dir, name)]]
\* mutant of load_template: the file is read on every call
load_template_ReadsEveryTime(cache, dir, name) ==
    [template |-> imread(dir, name),
     templates |-> [cache EXCEPT ![name] = imread(dir, name)]]

\* ImageMatcher.load_template: the template (NoImage: None) and the cache
\* after the call
load_template(cache, dir, name) ==
    IF cache[name] # NoImage
    THEN [template |-> cache[name], templates |-> cache]
    ELSE IF dir[name].kind = "missing"
    THEN [template |-> NoImage, templates |-> cache]
    ELSE IF imread(dir, name) = NoImage
    THEN [template |-> NoImage, templates |-> cache]
    ELSE [template |-> imread(dir, name),
          templates |-> [cache EXCEPT ![name] = imread(dir, name)]]

\* the similarity of the window of img at offset x (from 0) to tpl
Score(img, tpl, x) ==
    (100 * Cardinality({i \in 1..Len(tpl) : img[x + i] = tpl[i]})) \div Len(tpl)

\* `cv2.matchTemplate(screen_img, template, cv2.TM_CCOEFF_NORMED)`: one
\* score per offset; the call raises when the template is wider than the
\* screenshot, which is the empty result here
matchTemplate(img, tpl) ==
    IF Len(tpl) > Len(img) THEN <<>>
    ELSE [k \in 1..(Len(img) - Len(tpl) + 1) |-> Score(img, tpl, k - 1)]

\* `_, max_val, _, max_loc = cv2.minMaxLoc(result)`: the first offset of
\* the greatest score
minMaxLoc(res) ==
    LET best == CHOOSE k \in DOMAIN res :
                    /\ \A j \in DOMAIN res : res[j] <= res[k]
                    /\ \A j \in DOMAIN res : res[j] = res[k] => k <= j
    IN  [max_val |-> res[best], max_loc |-> best - 1]
\* mutant of FindInScreen: a score equal to the threshold is no match
FindInScreen_AboveThreshold(data, name, thr, cache, dir) ==
    LET img == imdecode(data)
        ld == load_template(cache, dir, name)
        res == matchTemplate(img, ld.template)
    IN  IF img = NoImage THEN [location |-> NoMatch, templates |-> cache]
        ELSE IF ld.template = NoImage
        THEN [location |-> NoMatch, templates |-> ld.templates]
        ELSE IF res = <<>> THEN [location |-> NoMatch, templates |-> ld.templates]
        ELSE IF minMaxLoc(res).max_val > thr
        THEN [location |-> MatchAt(minMaxLoc(res).max_loc), templates |-> ld.templates]
        ELSE [location |-> NoMatch, templates |-> ld.templates]

\* ImageMatcher.find_in_screen: the location returned and the cache after
\* the call
FindInScreen(data, name, thr, cache, dir) ==
    LET img == imdecode(data)
        ld == load_template(cache, dir, name)
        res == matchTemplate(img, ld.template)
    IN  IF img = NoImage THEN [location |-> NoMatch, templates |-> cache]
        ELSE IF ld.template = NoImage
        THEN [location |-> NoMatch, templates |-> ld.templates]
        ELSE IF res = <<>> THEN [location |-> NoMatch, templates |-> ld.templates]
        ELSE IF minMaxLoc(res).max_val >= thr
        THEN [location |-> MatchAt(minMaxLoc(res).max_loc), templates |-> ld.templates]
        ELSE [location |-> NoMatch, templates |-> ld.templates]

\* the record kept of a find_in_screen call; cached: the template was in
\* the cache when the call was made
Find(data, name, thr, location, cached) ==
    [data |-> data, name |-> name, threshold |-> thr, location |-> location,
     cached |-> cached]

NoFind == Find([kind |-> "none", pixels |-> NoImage], "-", 0, NoMatch, FALSE)

\* the record kept of a load_template call; cached: the name was in the
\* cache when the call was made
Load(name, file, template, cached) ==
    [name |-> name, file |-> file, template |-> template, cached |-> cached]

NoLoad == Load("-", MissingFile, NoImage, FALSE)

\* the second engine: its state, its statistics, the taps of its last
\* handler invocation
Twin(s, st, taps) == [state |-> s, stats |-> st, taps |-> taps]

NoTwin == Twin("IDLE", [n \in StatNames |-> 0], <<>>)

(***************************************************************************)
(* The state of the program.                                               *)
(***************************************************************************)
VARIABLES
    running,    \* self.running, the threading.Event
    state,      \* self.state
    stats,      \* self.stats
    lastNotif,  \* the value of the last state_changed signal ("-": none yet)
    rounds,     \* loop iterations begun so far
    budget,     \* loop iterations the model follows (a bound, never changed)
    wpc,        \* per worker thread: where it is in _bot_loop
    wcur,       \* the state whose handler it looked up
    wnext,      \* next_state, the handler's return value
    wctr,       \* the statistic its handler is incrementing
    wtmp,       \* the value it read of the statistic it is incrementing
    wtaps,      \* the taps of its current handler invocation
    wraised,    \* whether it is ending because it caught an exception
    werr,       \* the error signals it emitted since it caught the exception
    cpc,        \* the controlling thread: where it is in start() / stop()
    cop,        \* the call it makes or made last
    cret,       \* the value that call returned
    cflag,      \* self.running.is_set() as that call read it
    cdid,       \* what that call did, in order: "flag" and "state" (it wrote
                \* them), "spawn" (a thread), "error" (an error signal)
    stopped,    \* a stop() returned True and start() was not called since
    newest,     \* the worker that call spawned (0: none)
    last,       \* the handler invocation the only worker made last, with what
                \* it observed and did (followed under SeqSpec only)
    prev,       \* the invocation before that one
    now,        \* time.time() (the variables from here on are those of one
                \* handler's wait_for_images calls, followed under WaitSpec)
    queue,      \* the wait_for_images calls the handler has still to make
    call,       \* the arguments of the call being made
    start_time, \* its start_time
    screen_data,\* its screen_data, the last screenshot polled
    latency,    \* the time that last capture took
    ipc,        \* where the call is
    result,     \* the name it returned ("-": None, "?": not returned yet)
    captured,   \* whether the call has polled a screenshot
    failed,     \* whether screen_provider has returned None during the call
    missed,     \* whether the call polled again after a screenshot on which
                \* a candidate matched
    handler,    \* the state whose handler makes the calls ("-": the call is
                \* not a handler's)
    waited,     \* the results of the calls that handler invocation has made
    hret,       \* the state the handler returned ("-": none yet)
    templates,  \* ImageMatcher.templates, the cache of loaded templates
    template_dir, \* the files of ImageMatcher.template_dir, by name
    found,      \* the find_in_screen call made last: arguments and result
    twin,       \* a second engine that is shown the same screenshots: its
                \* state, its statistics, the taps of its last invocation
    twin_dir,   \* the template files of the second engine
    loaded,     \* the load_template call made last: its argument, the file
                \* of that name when it was made, what it returned
    replaced,   \* the files of template_dir replaced since the matcher was made
    start_button, \* whether MainWindow.start_button is enabled
    stop_button   \* whether MainWindow.stop_button is enabled

wvars == <<wpc, wcur, wnext, wctr, wtmp, wtaps, wraised, werr>>
cvars == <<cpc, cop, cret, cflag, cdid, stopped, newest>>
fvars == <<last, prev>>
hvars == <<handler, waited, hret>>
ivars == <<now, queue, call, start_time, screen_data, latency, ipc, result,
           captured, failed, missed, hvars>>
gvars == <<start_button, stop_button>>
nvars == <<loaded, replaced, gvars>>
mvars == <<templates, template_dir, found, twin, twin_dir, nvars>>
xvars == <<fvars, ivars, mvars>>
vars == <<running, state, stats, lastNotif, rounds, budget, wvars, cvars, xvars>>

Did(x) == \E i \in DOMAIN cdid : cdid[i] = x

\* a worker thread is alive from Thread.start() to the end of _bot_loop
Alive(w) == wpc[w] # "none"
InLoop(w) == wpc[w] \in {"test", "get", "pre", "read", "write", "post", "cmp", "set", "emit"}
InHandler(w) == wpc[w] \in {"pre", "read", "write", "post"}

InitOver(b, dir, dir2) ==
    /\ budget = b
    /\ running = FALSE
    /\ state = "IDLE"
    /\ stats = [n \in StatNames |-> 0]
    /\ lastNotif = "-"
    /\ rounds = 0
    /\ wpc = [w \in Workers |-> "none"]
    /\ wcur = [w \in Workers |-> "-"]
    /\ wnext = [w \in Workers |-> "-"]
    /\ wctr = [w \in Workers |-> "-"]
    /\ wtmp = [w \in Workers |-> 0]
    /\ wtaps = [w \in Workers |-> <<>>]
    /\ wraised = [w \in Workers |-> FALSE]
    /\ werr = [w \in Workers |-> 0]
    /\ cpc = "idle"
    /\ cop = "none"
    /\ cret = FALSE
    /\ cflag = FALSE
    /\ cdid = <<>>
    /\ stopped = FALSE
    /\ newest = 0
    /\ last = NoInvocation
    /\ prev = NoInvocation
    /\ now = 0
    /\ queue = <<>>
    /\ call = NoCall
    /\ start_time = 0
    /\ screen_data = NotTaken
    /\ latency = 0
    /\ ipc = "idle"
    /\ result = "?"
    /\ captured = FALSE
    /\ failed = FALSE
    /\ missed = FALSE
    /\ handler = "-"
    /\ waited = <<>>
    /\ hret = "-"
    /\ templates = NoTemplates
    /\ template_dir = dir
    /\ found = NoFind
    /\ twin = NoTwin
    /\ twin_dir = dir2
    /\ loaded = NoLoad
    /\ replaced = 0
    /\ start_button = TRUE
    /\ stop_button = FALSE

\* the engine with the templates it is shipped with
InitWith(b) == InitOver(b, Installed, Installed)

Init == InitWith(MaxRounds)

(***************************************************************************)
(* BotEngine.start, called by the controlling thread.                      *)
(***************************************************************************)
\* mutant of StartCall: a start() made while running emits an error signal
StartCall_SignalsWhenRunning ==
    /\ cpc = "idle"
    /\ running \/ \E w \in Workers : ~Alive(w)
    /\ cop' = "start"
    /\ cflag' = running
    /\ stopped' = FALSE
    /\ IF running
       THEN cpc' = "idle" /\ cret' = FALSE /\ cdid' = <<"error">>
       ELSE cpc' = "start_check" /\ cret' = cret /\ cdid' = <<>>
    /\ newest' = 0
    /\ UNCHANGED <<running, state, stats, lastNotif, rounds, budget, xvars, wvars>>

\* start(): `if not self.running.is_set()`, else `return False`
StartCall ==
    /\ cpc = "idle"
    /\ running \/ \E w \in Workers : ~Alive(w)
    /\ cop' = "start"
    /\ cflag' = running
    /\ cdid' = <<>>
    /\ stopped' = FALSE
    /\ IF running
       THEN cpc' = "idle" /\ cret' = FALSE
       ELSE cpc' = "start_check" /\ cret' = cret
    /\ newest' = 0
    /\ UNCHANGED <<running, state, stats, lastNotif, rounds, budget, xvars, wvars>>

\* mutant of StartCheck: the failed check returns False without a signal
StartCheck_NoSignal ==
    /\ cpc = "start_check"
    /\ \E connected \in BOOLEAN :
          IF connected
          THEN cpc' = "start_set" /\ cret' = cret
          ELSE cpc' = "idle" /\ cret' = FALSE
    /\ UNCHANGED <<running, state, stats, lastNotif, rounds, budget, xvars, wvars,
                   cop, cflag, cdid, stopped, newest>>

\* start(): `if not self.adb.check_connection()`: error signal, return False
StartCheck ==
    /\ cpc = "start_check"
    /\ \E connected \in BOOLEAN :
          IF connected
          THEN cpc' = "start_set" /\ UNCHANGED <<cret, cdid>>
          ELSE /\ cpc' = "idle"
               /\ cret' = FALSE
               /\ cdid' = IF signals THEN Append(cdid, "error") ELSE cdid
    /\ UNCHANGED <<running, state, stats, lastNotif, rounds, budget, xvars, wvars,
                   cop, cflag, stopped, newest>>

\* start(): self.running.set()
StartSet ==
    /\ cpc = "start_set"
    /\ running' = TRUE
    /\ cdid' = Append(cdid, "flag")
    /\ cpc' = "start_state"
    /\ UNCHANGED <<state, stats, lastNotif, rounds, budget, xvars, wvars,
                   cop, cret, cflag, stopped, newest>>

\* start(): self.state = BotState.STARTING
StartState ==
    /\ cpc = "start_state"
    /\ state' = "STARTING"
    /\ cdid' = Append(cdid, "state")
    /\ cpc' = "start_spawn"
    /\ UNCHANGED <<running, stats, lastNotif, rounds, budget, xvars, wvars,
                   cop, cret, cflag, stopped, newest>>

\* start(): threading.Thread(target=self._bot_loop).start(); return True
StartSpawn ==
    /\ cpc = "start_spawn"
    /\ LET w == CHOOSE v \in Workers : ~Alive(v) /\ \A u \in Workers : u < v => Alive(u)
       IN /\ wpc' = [wpc EXCEPT ![w] = "test"]
          /\ wraised' = [wraised EXCEPT ![w] = FALSE]
          /\ werr' = [werr EXCEPT ![w] = 0]
          /\ newest' = w
    /\ cdid' = Append(cdid, "spawn")
    /\ cret' = TRUE
    /\ cpc' = "idle"
    /\ UNCHANGED <<running, state, stats, lastNotif, rounds, budget, xvars,
                   wcur, wnext, wctr, wtmp, wtaps, cop, cflag, stopped>>

(***************************************************************************)
(* BotEngine.stop, called by the controlling thread.                       *)
(***************************************************************************)
\* mutant of StopCall: stop() returns True whether or not the flag was set
StopCall_AlwaysTrue ==
    /\ cpc = "idle"
    /\ cop' = "stop"
    /\ cflag' = running
    /\ cdid' = <<>>
    /\ IF running
       THEN cpc' = "stop_clear" /\ cret' = cret
       ELSE cpc' = "idle" /\ cret' = TRUE
    /\ newest' = 0
    /\ UNCHANGED <<running, state, stats, lastNotif, rounds, budget, xvars, wvars, stopped>>

\* stop(): `if self.running.is_set()`, else `return False`
StopCall ==
    /\ cpc = "idle"
    /\ cop' = "stop"
    /\ cflag' = running
    /\ cdid' = <<>>
    /\ IF running
       THEN cpc' = "stop_clear" /\ cret' = cret
       ELSE cpc' = "idle" /\ cret' = FALSE
    /\ newest' = 0
    /\ UNCHANGED <<running, state, stats, lastNotif, rounds, budget, xvars, wvars, stopped>>

\* stop(): self.running.clear()
StopClear ==
    /\ cpc = "stop_clear"
    /\ running' = FALSE
    /\ cdid' = Append(cdid, "flag")
    /\ cpc' = "stop_state"
    /\ UNCHANGED <<state, stats, lastNotif, rounds, budget, xvars, wvars,
                   cop, cret, cflag, stopped, newest>>

\* stop(): self.state = BotState.IDLE; return True
StopState ==
    /\ cpc = "stop_state"
    /\ state' = "IDLE"
    /\ cdid' = Append(cdid, "state")
    /\ cret' = TRUE
    /\ stopped' = TRUE
    /\ cpc' = "idle"
    /\ UNCHANGED <<running, stats, lastNotif, rounds, budget, xvars, wvars, cop, cflag, newest>>

(***************************************************************************)
(* BotEngine._bot_loop, run by each worker thread.                         *)
(***************************************************************************)
\* the locals of worker w's loop iteration
SetLocals(w, cur, next, ctr, tmp, taps) ==
    /\ wcur' = [wcur EXCEPT ![w] = cur]
    /\ wnext' = [wnext EXCEPT ![w] = next]
    /\ wctr' = [wctr EXCEPT ![w] = ctr]
    /\ wtmp' = [wtmp EXCEPT ![w] = tmp]
    /\ wtaps' = [wtaps EXCEPT ![w] = taps]

ClearLocals(w) == SetLocals(w, "-", "-", "-", 0, <<>>)

KeepLocals == UNCHANGED <<wcur, wnext, wctr, wtmp, wtaps>>

Goto(w, pc) == wpc' = [wpc EXCEPT ![w] = pc]
\* mutant of LoopTest: the loop does not test the flag
LoopTest_IgnoresFlag(w) ==
    /\ wpc[w] = "test"
    /\ rounds < budget
    /\ Goto(w, "get") /\ rounds' = rounds + 1
    /\ KeepLocals
    /\ UNCHANGED <<running, state, stats, lastNotif, budget, xvars, wraised, werr, cvars>>

\* `while self.running.is_set():`
LoopTest(w) ==
    /\ wpc[w] = "test"
    /\ running => rounds < budget
    /\ IF running
       THEN Goto(w, "get") /\ rounds' = rounds + 1
       ELSE Goto(w, "fin_clear") /\ rounds' = rounds
    /\ KeepLocals
    /\ UNCHANGED <<running, state, stats, lastNotif, budget, xvars, wraised, werr, cvars>>

\* `handler = self.state_actions.get(self.state)`; without a handler:
\* `self.state = BotState.ERROR`, then the sleep
GetHandler(w) ==
    /\ wpc[w] = "get"
    /\ IF state \in state_actions
       THEN /\ Goto(w, "pre")
            /\ SetLocals(w, state, "-", "-", 0, <<>>)
            /\ state' = state
       ELSE /\ Goto(w, "test")
            /\ KeepLocals
            /\ state' = "ERROR"
    /\ UNCHANGED <<running, stats, lastNotif, rounds, budget, xvars, wraised, werr, cvars>>

\* mutant of Caught: the exception is swallowed inside the loop
Caught_BackToLoop(w) ==
    /\ Goto(w, "test")
    /\ ClearLocals(w)
    /\ wraised' = [wraised EXCEPT ![w] = TRUE]

\* the exception a handler raised reaches `except Exception`
Caught(w) ==
    /\ Goto(w, "exc")
    /\ ClearLocals(w)
    /\ wraised' = [wraised EXCEPT ![w] = TRUE]

\* `next_state = handler()`, up to the handler's increment of a statistic
HandlerPre(w) ==
    /\ wpc[w] = "pre"
    /\ \E o \in PreOutcomes(wcur[w]) :
          CASE o.k = "ret" ->
                  /\ Goto(w, "cmp")
                  /\ SetLocals(w, wcur[w], o.next, "-", 0, o.taps)
                  /\ wraised' = wraised
            [] o.k = "inc" ->
                  /\ Goto(w, "read")
                  /\ SetLocals(w, wcur[w], "-", o.ctr, 0, o.taps)
                  /\ wraised' = wraised
            [] o.k = "raise" -> Caught(w)
    /\ UNCHANGED <<running, state, stats, lastNotif, rounds, budget, xvars, werr, cvars>>

\* `self.stats[ctr] += 1`: the read
StatRead(w) ==
    /\ wpc[w] = "read"
    /\ Goto(w, "write")
    /\ wtmp' = [wtmp EXCEPT ![w] = stats[wctr[w]]]
    /\ UNCHANGED <<running, state, stats, lastNotif, rounds, budget, xvars,
                   wcur, wnext, wctr, wtaps, wraised, werr, cvars>>

\* `self.stats[ctr] += 1`: the write
StatWrite(w) ==
    /\ wpc[w] = "write"
    /\ Goto(w, "post")
    /\ stats' = [stats EXCEPT ![wctr[w]] = wtmp[w] + 1]
    /\ wtmp' = [wtmp EXCEPT ![w] = 0]
    /\ UNCHANGED <<running, state, lastNotif, rounds, budget, xvars,
                   wcur, wnext, wctr, wtaps, wraised, werr, cvars>>

\* the rest of the handler, after its increment
HandlerPost(w) ==
    /\ wpc[w] = "post"
    /\ \E o \in PostOutcomes(wcur[w], wctr[w]) :
          CASE o.k = "ret" ->
                  /\ Goto(w, "cmp")
                  /\ SetLocals(w, wcur[w], o.next, wctr[w], 0, wtaps[w] \o o.taps)
                  /\ wraised' = wraised
            [] o.k = "raise" -> Caught(w)
    /\ UNCHANGED <<running, state, stats, lastNotif, rounds, budget, xvars, werr, cvars>>

\* `if next_state and next_state != self.state:`, else the sleep
Compare(w) ==
    /\ wpc[w] = "cmp"
    /\ IF wnext[w] # state
       THEN Goto(w, "set") /\ SetLocals(w, "-", wnext[w], "-", 0, <<>>)
       ELSE Goto(w, "test") /\ ClearLocals(w)
    /\ UNCHANGED <<running, state, stats, lastNotif, rounds, budget, xvars, wraised, werr, cvars>>

\* `self.state = next_state`
SetState(w) ==
    /\ wpc[w] = "set"
    /\ Goto(w, "emit")
    /\ state' = wnext[w]
    /\ ClearLocals(w)
    /\ UNCHANGED <<running, stats, lastNotif, rounds, budget, xvars, wraised, werr, cvars>>

\* `self.signals.state_changed.emit(self.state.name)`, then the sleep
EmitState(w) ==
    /\ wpc[w] = "emit"
    /\ Goto(w, "test")
    /\ lastNotif' = IF signals THEN state ELSE lastNotif
    /\ ClearLocals(w)
    /\ UNCHANGED <<running, state, stats, rounds, budget, xvars, wraised, werr, cvars>>

\* except: `self.state = BotState.ERROR`
ExcState(w) ==
    /\ wpc[w] = "exc"
    /\ Goto(w, "exc_read")
    /\ state' = "ERROR"
    /\ KeepLocals
    /\ UNCHANGED <<running, stats, lastNotif, rounds, budget, xvars, wraised, werr, cvars>>

\* except: `self.stats["errors"] += 1`: the read
ExcRead(w) ==
    /\ wpc[w] = "exc_read"
    /\ Goto(w, "exc_write")
    /\ wtmp' = [wtmp EXCEPT ![w] = stats["errors"]]
    /\ UNCHANGED <<running, state, stats, lastNotif, rounds, budget, xvars,
                   wcur, wnext, wctr, wtaps, wraised, werr, cvars>>

\* except: `self.stats["errors"] += 1`: the write; `self.signals.error.emit`
ExcWrite(w) ==
    /\ wpc[w] = "exc_write"
    /\ Goto(w, "fin_clear")
    /\ stats' = [stats EXCEPT !["errors"] = wtmp[w] + 1]
    /\ wtmp' = [wtmp EXCEPT ![w] = 0]
    /\ werr' = [werr EXCEPT ![w] = IF signals THEN @ + 1 ELSE @]
    /\ UNCHANGED <<running, state, lastNotif, rounds, budget, xvars,
                   wcur, wnext, wctr, wtaps, wraised, cvars>>

\* finally: `self.running.clear()`
FinClear(w) ==
    /\ wpc[w] = "fin_clear"
    /\ Goto(w, "fin_state")
    /\ running' = FALSE
    /\ KeepLocals
    /\ UNCHANGED <<state, stats, lastNotif, rounds, budget, xvars, wraised, werr, cvars>>

\* mutant of FinState: the finally block does not reset the state
FinState_KeepsState(w) ==
    /\ wpc[w] = "fin_state"
    /\ Goto(w, "fin_emit")
    /\ KeepLocals
    /\ UNCHANGED <<running, state, stats, lastNotif, rounds, budget, xvars, wraised, werr, cvars>>

\* finally: `self.state = BotState.IDLE`
FinState(w) ==
    /\ wpc[w] = "fin_state"
    /\ Goto(w, "fin_emit")
    /\ state' = "IDLE"
    /\ KeepLocals
    /\ UNCHANGED <<running, stats, lastNotif, rounds, budget, xvars, wraised, werr, cvars>>

\* finally: `self.signals.state_changed.emit(self.state.name)`; the thread ends
FinEmit(w) ==
    /\ wpc[w] = "fin_emit"
    /\ Goto(w, "none")
    /\ lastNotif' = IF signals THEN state ELSE lastNotif
    /\ wraised' = [wraised EXCEPT ![w] = FALSE]
    /\ werr' = [werr EXCEPT ![w] = 0]
    /\ KeepLocals
    /\ UNCHANGED <<running, state, stats, rounds, budget, xvars, cvars>>

WorkerStep(w) ==
    \/ LoopTest(w)
    \/ GetHandler(w)
    \/ HandlerPre(w)
    \/ StatRead(w)
    \/ StatWrite(w)
    \/ HandlerPost(w)
    \/ Compare(w)
    \/ SetState(w)
    \/ EmitState(w)
    \/ ExcState(w)
    \/ ExcRead(w)
    \/ ExcWrite(w)
    \/ FinClear(w)
    \/ FinState(w)
    \/ FinEmit(w)

ControlStep ==
    \/ StartCall
    \/ StartCheck
    \/ StartSet
    \/ StartState
    \/ StartSpawn
    \/ StopCall
    \/ StopClear
    \/ StopState

Next ==
    \/ ControlStep
    \/ \E w \in Workers : WorkerStep(w)

Spec == Init /\ [][Next]_vars

\* a started thread is scheduled again and again until it ends
LiveSpec ==
    InitWith(MaxLiveRounds) /\ [][Next]_vars /\ \A w \in Workers : WF_vars(WorkerStep(w))

(***************************************************************************)
(* The single flow of section 4.4: start() with a passing check, then the  *)
(* iterations of the only worker, each taken as one step, with no call of  *)
(* start() or stop() while the worker runs.                                *)
(***************************************************************************)
\* start(), lines 80-91, check_connection() returning True
FlowStart ==
    /\ cpc = "idle"
    /\ ~running
    /\ \A w \in Workers : ~Alive(w)
    /\ rounds < budget
    /\ running' = TRUE
    /\ state' = "STARTING"
    /\ wpc' = [wpc EXCEPT ![1] = "test"]
    /\ cop' = "start"
    /\ cflag' = FALSE
    /\ cret' = TRUE
    /\ cdid' = <<"flag", "state", "spawn">>
    /\ newest' = 1
    /\ UNCHANGED <<stats, lastNotif, rounds, budget, wcur, wnext, wctr, wtmp,
                   wtaps, wraised, werr, cpc, stopped, xvars>>

\* one iteration of _bot_loop, lines 107-126, whose handler returns
FlowIteration ==
    /\ wpc[1] = "test"
    /\ running
    /\ rounds < budget
    /\ state \in state_actions
    /\ \E o \in Observations(state) :
          LET r == Invoke(state, o)
          IN  /\ last' = Invocation(state, o, r.next, r.taps, stats, FALSE)
              /\ stats' = Bump(stats, r.incs)
              /\ state' = r.next
              /\ lastNotif' = IF r.next # state /\ signals THEN r.next ELSE lastNotif
    /\ prev' = last
    /\ rounds' = rounds + 1
    /\ UNCHANGED <<running, budget, wvars, cvars, ivars, mvars>>

\* an iteration whose handler raises: lines 128-139, then the thread ends
FlowException ==
    /\ wpc[1] = "test"
    /\ running
    /\ rounds < budget
    /\ state \in state_actions
    /\ \E incs \in RaisePoints(state) :
          stats' = [Bump(stats, incs) EXCEPT !["errors"] = @ + 1]
    /\ last' = Invocation(state, NoObs, "-", <<>>, stats, TRUE)
    /\ prev' = last
    /\ state' = "IDLE"
    /\ running' = FALSE
    /\ lastNotif' = IF signals THEN "IDLE" ELSE lastNotif
    /\ wpc' = [wpc EXCEPT ![1] = "none"]
    /\ rounds' = rounds + 1
    /\ UNCHANGED <<budget, wcur, wnext, wctr, wtmp, wtaps, wraised, werr,
                   cvars, ivars, mvars>>

SeqNext ==
    \/ FlowStart
    \/ FlowIteration
    \/ FlowException

SeqSpec == Init /\ [][SeqNext]_vars

(***************************************************************************)
(* ImageMatcher.wait_for_images step by step, with the clock, for the      *)
(* calls one handler invocation makes.                                     *)
(***************************************************************************)
\* the variables of one call, at `start_time = time.time()`
\* the markers of the calls the handler has still to make
Later(c, q) ==
    UNION {Range(q[i].image_list) : i \in DOMAIN q} \ Range(c.image_list)

\* the screenshots a poll of call c may get: what matters of them is which
\* candidates of c they show and whether they show the markers of the calls
\* that are still to come
PollCaptures(c, q) ==
    CapturesOver(Range(c.image_list))
    \cup {Image(m \cup Later(c, q)) : m \in SUBSET Range(c.image_list)}

\* the n-th result of the results w, NoWait for a call not made
Waited(w, n) == IF n <= Len(w) THEN w[n] ELSE NoWait

\* the states the handler of state h can return after calls with results w
Returns(h, w) ==
    IF h = "-" THEN {"-"}
    ELSE {Invoke(h, o).next :
             o \in {p \in Observations(h) :
                       /\ p.ra = Waited(w, 1)
                       /\ p.rb = Waited(w, 2)
                       /\ p.rc = Waited(w, 3)}}

CallStarts(c) ==
    /\ call' = c
    /\ start_time' = now
    /\ screen_data' = NotTaken
    /\ latency' = 0
    /\ result' = "?"
    /\ captured' = FALSE
    /\ failed' = FALSE
    /\ missed' = FALSE

\* a handler is invoked (or wait_for_images is called with other arguments)
HandlerBegins ==
    /\ ipc = "idle"
    /\ \/ \E s \in BotState : queue' = HandlerWaits(s) /\ handler' = s
       \/ \E c \in OtherCalls : queue' = <<c>> /\ handler' = "-"
    /\ ipc' = "call"
    /\ waited' = <<>>
    /\ hret' = "-"
    /\ UNCHANGED <<now, call, start_time, screen_data, latency, result,
                   captured, failed, missed>>
    /\ UNCHANGED <<running, state, stats, lastNotif, rounds, budget, wvars, cvars, fvars, mvars>>

\* the handler calls wait_for_images: `start_time = time.time()`
WfiCall ==
    /\ ipc = "call"
    /\ queue # <<>>
    /\ CallStarts(Head(queue))
    /\ queue' = Tail(queue)
    /\ ipc' = "test"
    /\ now' = now
    /\ UNCHANGED <<running, state, stats, lastNotif, rounds, budget, wvars, cvars, fvars, mvars, hvars>>
\* mutant of WfiTest: the loop goes on while the elapsed time is <= timeout
WfiTest_Inclusive ==
    /\ ipc = "test"
    /\ IF now - start_time <= call.timeout
       THEN ipc' = "poll" /\ result' = result
       ELSE ipc' = "ret" /\ result' = "-"
    /\ UNCHANGED <<now, queue, call, start_time, screen_data, latency,
                   captured, failed, missed>>
    /\ UNCHANGED <<running, state, stats, lastNotif, rounds, budget, wvars, cvars, fvars, mvars, hvars>>

\* `while time.time() - start_time < timeout:`, else `return None, None`
WfiTest ==
    /\ ipc = "test"
    /\ IF now - start_time < call.timeout
       THEN ipc' = "poll" /\ result' = result
       ELSE ipc' = "ret" /\ result' = "-"
    /\ UNCHANGED <<now, queue, call, start_time, screen_data, latency,
                   captured, failed, missed>>
    /\ UNCHANGED <<running, state, stats, lastNotif, rounds, budget, wvars, cvars, fvars, mvars, hvars>>
\* mutant of WfiPoll: a failed capture ends the call with (None, None)
WfiPoll_FailureReturns ==
    /\ ipc = "poll"
    /\ \E c \in PollCaptures(call, queue), d \in 0..MaxLatency :
          /\ screen_data' = c
          /\ latency' = d
          /\ now' = now + d
          /\ failed' = (failed \/ c = NoCapture)
          /\ IF c = NoCapture
             THEN ipc' = "ret" /\ result' = "-"
             ELSE ipc' = "match" /\ result' = result
    /\ captured' = TRUE
    /\ missed' = (missed \/ (captured /\ FirstFound(screen_data, call.image_list) # "-"))
    /\ UNCHANGED <<queue, call, start_time>>
    /\ UNCHANGED <<running, state, stats, lastNotif, rounds, budget, wvars, cvars, fvars, mvars, hvars>>

\* `screen_data = screen_provider()`; `if screen_data is None:`
WfiPoll ==
    /\ ipc = "poll"
    /\ \E c \in PollCaptures(call, queue), d \in 0..MaxLatency :
          /\ screen_data' = c
          /\ latency' = d
          /\ now' = now + d
          /\ failed' = (failed \/ c = NoCapture)
          /\ ipc' = IF c = NoCapture THEN "sleep" ELSE "match"
    /\ captured' = TRUE
    /\ missed' = (missed \/ (captured /\ FirstFound(screen_data, call.image_list) # "-"))
    /\ UNCHANGED <<queue, call, start_time, result>>
    /\ UNCHANGED <<running, state, stats, lastNotif, rounds, budget, wvars, cvars, fvars, mvars, hvars>>
\* mutant of WfiMatch: the last candidate of the list that matches is returned
WfiMatch_LastInList ==
    /\ ipc = "match"
    /\ LET hits == {i \in DOMAIN call.image_list :
                       find_in_screen(screen_data, call.image_list[i])}
       IN  IF hits # {}
           THEN /\ ipc' = "ret"
                /\ result' = call.image_list[CHOOSE i \in hits : \A j \in hits : j <= i]
           ELSE ipc' = "sleep" /\ result' = result
    /\ UNCHANGED <<now, queue, call, start_time, screen_data, latency,
                   captured, failed, missed>>
    /\ UNCHANGED <<running, state, stats, lastNotif, rounds, budget, wvars, cvars, fvars, mvars, hvars>>

\* `for image_name in image_list:` ... `return image_name, match_location`
WfiMatch ==
    /\ ipc = "match"
    /\ IF FirstFound(screen_data, call.image_list) # "-"
       THEN ipc' = "ret" /\ result' = FirstFound(screen_data, call.image_list)
       ELSE ipc' = "sleep" /\ result' = result
    /\ UNCHANGED <<now, queue, call, start_time, screen_data, latency,
                   captured, failed, missed>>
    /\ UNCHANGED <<running, state, stats, lastNotif, rounds, budget, wvars, cvars, fvars, mvars, hvars>>
\* mutant of WfiSleep: the sleep takes no time
WfiSleep_NoTimePasses ==
    /\ ipc = "sleep"
    /\ ipc' = "test"
    /\ UNCHANGED <<now, queue, call, start_time, screen_data, latency, result,
                   captured, failed, missed>>
    /\ UNCHANGED <<running, state, stats, lastNotif, rounds, budget, wvars, cvars, fvars, mvars, hvars>>

\* `time.sleep(check_interval)`
WfiSleep ==
    /\ ipc = "sleep"
    /\ now' = now + call.check_interval
    /\ ipc' = "test"
    /\ UNCHANGED <<queue, call, start_time, screen_data, latency, result,
                   captured, failed, missed>>
    /\ UNCHANGED <<running, state, stats, lastNotif, rounds, budget, wvars, cvars, fvars, mvars, hvars>>
\* mutant of WfiReturn: the handler makes every call it has, match or not
WfiReturn_RunsEveryPhase ==
    /\ ipc = "ret"
    /\ waited' = Append(waited, result)
    /\ IF queue # <<>>
       THEN ipc' = "call" /\ queue' = queue /\ hret' = hret
       ELSE ipc' = "done" /\ queue' = <<>> /\ hret' \in Returns(handler, <<"-", "-", result>>)
    /\ UNCHANGED <<now, call, start_time, screen_data, latency, result,
                   captured, failed, missed, handler>>
    /\ UNCHANGED <<running, state, stats, lastNotif, rounds, budget, wvars, cvars, fvars, mvars>>

\* the call has returned: the handler makes its next call if this one gave
\* (None, None) and it has one left, and returns to the loop otherwise
WfiReturn ==
    /\ ipc = "ret"
    /\ waited' = Append(waited, result)
    /\ IF result = "-" /\ queue # <<>>
       THEN ipc' = "call" /\ queue' = queue /\ hret' = hret
       ELSE ipc' = "done" /\ queue' = <<>> /\ hret' \in Returns(handler, waited')
    /\ UNCHANGED <<now, call, start_time, screen_data, latency, result,
                   captured, failed, missed, handler>>
    /\ UNCHANGED <<running, state, stats, lastNotif, rounds, budget, wvars, cvars, fvars, mvars>>

\* a handler that makes no call returns to the loop
HandlerReturns ==
    /\ ipc = "call"
    /\ queue = <<>>
    /\ ipc' = "done"
    /\ hret' \in Returns(handler, waited)
    /\ UNCHANGED <<now, queue, call, start_time, screen_data, latency, result,
                   captured, failed, missed, handler, waited>>
    /\ UNCHANGED <<running, state, stats, lastNotif, rounds, budget, wvars, cvars, fvars, mvars>>

WaitNext ==
    \/ HandlerBegins
    \/ WfiCall
    \/ WfiTest
    \/ WfiPoll
    \/ WfiMatch
    \/ WfiSleep
    \/ WfiReturn
    \/ HandlerReturns

WaitSpec == Init /\ [][WaitNext]_vars

\* the thread that runs the handler is scheduled until the handler returns
WaitLive == Init /\ [][WaitNext]_vars /\ WF_vars(WaitNext)

(***************************************************************************)
(* ImageMatcher.find_in_screen called again and again on one matcher,      *)
(* whose template directory does not change while it runs.                 *)
(***************************************************************************)
\* the templates the calls ask for
MatchNames == {"victory.png", "defeat.png"}

\* the matcher of a directory in which one of these files may be any file
MatchInit ==
    \E n \in MatchNames, f \in FileStates :
        InitOver(MaxRounds, [Installed EXCEPT ![n] = f], Installed)

\* one call of find_in_screen, lines 49-101
FindInScreenCall ==
    /\ \E data \in ScreenData, name \in MatchNames, thr \in Thresholds :
          LET r == FindInScreen(data, name, thr, templates, template_dir)
          IN  /\ found' = Find(data, name, thr, r.location, templates[name] # NoImage)
              /\ templates' = r.templates
    /\ UNCHANGED <<running, state, stats, lastNotif, rounds, budget, wvars, cvars,
                   fvars, ivars, template_dir, twin, twin_dir, nvars>>

MatchNext == FindInScreenCall

MatchSpec == MatchInit /\ [][MatchNext]_vars

(***************************************************************************)
(* ImageMatcher.load_template called again and again on one matcher,       *)
(* while files of the template directory are replaced, removed or added.   *)
(***************************************************************************)
\* the files replaced while the matcher runs
MaxReplaced == 1

\* one call of load_template, lines 19-47
LoadTemplateCall ==
    /\ \E name \in MatchNames :
          LET r == load_template(templates, template_dir, name)
          IN  /\ loaded' = Load(name, template_dir[name], r.template,
                                templates[name] # NoImage)
              /\ templates' = r.templates
    /\ UNCHANGED <<running, state, stats, lastNotif, rounds, budget, wvars, cvars,
                   fvars, ivars, template_dir, found, twin, twin_dir, replaced, gvars>>

\* a file of the directory is written, removed or damaged from outside
FileReplaced ==
    /\ replaced < MaxReplaced
    /\ \E name \in MatchNames, f \in FileStates :
          /\ f # template_dir[name]
          /\ template_dir' = [template_dir EXCEPT ![name] = f]
    /\ replaced' = replaced + 1
    /\ UNCHANGED <<running, state, stats, lastNotif, rounds, budget, wvars, cvars,
                   fvars, ivars, templates, found, twin, twin_dir, loaded, gvars>>

CacheNext ==
    \/ LoadTemplateCall
    \/ FileReplaced

CacheSpec == MatchInit /\ [][CacheNext]_vars

(***************************************************************************)
(* Two engines that are shown the same screenshots and whose template      *)
(* directories differ in one file: the first engine cannot load it, the    *)
(* second has the file it is shipped with, which matches none of the       *)
(* screenshots shown.  The first engine is `state`, `stats` and `last`,    *)
(* the second is `twin`.                                                   *)
(***************************************************************************)
\* screenshots one wait_for_images call polls before its deadline passes
PairPolls == 1

\* a screenshot as a handler sees it: None, b"", or what find_in_screen
\* finds on it with the default threshold (the cache holds only what was
\* read of the files, so it is left out)
View(data, dir) ==
    IF data.kind = "none" THEN NoCapture
    ELSE IF data.kind = "empty" THEN EmptyCapture
    ELSE Image({n \in Templates :
                  FindInScreen(data, n, DefaultThreshold, NoTemplates, dir).location.matched})

\* the directories of the two engines: Installed, and Installed with one
\* file that cannot be loaded
PairDirs ==
    {Installed} \cup
    {[Installed EXCEPT ![t] = u] : t \in Templates, u \in {MissingFile, CorruptFile}}

\* View, worked out once for every screenshot and directory
ViewOf == [dir \in PairDirs |-> [data \in ScreenData |-> View(data, dir)]]

\* the screenshots the handler of state s takes at most
Shots(s) ==
    CASE s \in {"STARTING", "BATTLE_ENDED"} -> 1
      [] s \in {"CONFIRMING_BATTLE", "IN_BATTLE", "CONNECTION_LOST"} -> PairPolls + 1
      [] s = "RECONNECTING" -> 3 * PairPolls
      [] OTHER -> 0

\* the screenshots from..to of shots, as the handler sees them
Views(shots, from, to, dir) ==
    [i \in 1..(to - from + 1) |-> ViewOf[dir][shots[from + i - 1]]]

\* what the handler of state s observes when the device yields shots, in
\* the order the handler captures them
Observe(s, shots, dir) ==
    CASE s \in {"STARTING", "BATTLE_ENDED"} ->
            Obs(ViewOf[dir][shots[1]], NoWait, NoWait, NoWait)
      [] s \in {"CONFIRMING_BATTLE", "IN_BATTLE"} ->
            LET ra == wait_for_images(Views(shots, 1, PairPolls, dir),
                                      HandlerWaits(s)[1].image_list)
            IN  IF ra # "-" THEN Obs(NotTaken, ra, NoWait, NoWait)
                ELSE Obs(ViewOf[dir][shots[PairPolls + 1]], "-", NoWait, NoWait)
      [] s = "CONNECTION_LOST" ->
            LET c == ViewOf[dir][shots[1]]
            IN  IF ~Truthy(c) \/ find_in_screen(c, "contact_us.png")
                THEN Obs(c, NoWait, NoWait, NoWait)
                ELSE Obs(c, wait_for_images(Views(shots, 2, PairPolls + 1, dir),
                                            HandlerWaits(s)[1].image_list),
                         NoWait, NoWait)
      [] s = "RECONNECTING" ->
            LET ra == wait_for_images(Views(shots, 1, PairPolls, dir),
                                      HandlerWaits(s)[1].image_list)
                rb == wait_for_images(Views(shots, PairPolls + 1, 2 * PairPolls, dir),
                                      HandlerWaits(s)[2].image_list)
                rc == wait_for_images(Views(shots, 2 * PairPolls + 1, 3 * PairPolls, dir),
                                      HandlerWaits(s)[3].image_list)
            IN  IF ra # "-" THEN Obs(NotTaken, ra, NoWait, NoWait)
                ELSE IF rb # "-" THEN Obs(NotTaken, "-", rb, NoWait)
                ELSE Obs(NotTaken, "-", "-", rc)
      [] OTHER -> NoObs

\* the file in which the two directories differ
OddTemplate == CHOOSE n \in Templates : template_dir[n].kind # "image"

\* the second engine's copy of that file matches on none of shots
NeverMatches(shots) ==
    \A i \in DOMAIN shots :
        ~find_in_screen(ViewOf[twin_dir][shots[i]], OddTemplate)

PairInit ==
    \E t \in Templates, u \in {MissingFile, CorruptFile} :
        InitOver(MaxRounds, [Installed EXCEPT ![t] = u], Installed)

\* start() of both engines, lines 80-91, check_connection() returning True
PairStart ==
    /\ ~running
    /\ state = "IDLE"
    /\ rounds < budget
    /\ running' = TRUE
    /\ state' = "STARTING"
    /\ twin' = Twin("STARTING", twin.stats, <<>>)
    /\ UNCHANGED <<stats, lastNotif, rounds, budget, wvars, cvars, fvars, ivars,
                   templates, template_dir, found, twin_dir, nvars>>

\* one iteration of _bot_loop in both engines, lines 107-126, on the same
\* screenshots
PairIteration ==
    /\ running
    /\ rounds < budget
    /\ state \in state_actions
    /\ \E shots \in [1..Max(Shots(state), Shots(twin.state)) -> ScreenData] :
          /\ NeverMatches(shots)
          /\ LET r == Invoke(state, Observe(state, shots, template_dir))
                 r2 == Invoke(twin.state, Observe(twin.state, shots, twin_dir))
             IN  /\ last' = Invocation(state, NoObs, r.next, r.taps, stats, FALSE)
                 /\ stats' = Bump(stats, r.incs)
                 /\ state' = r.next
                 /\ lastNotif' = IF r.next # state /\ signals THEN r.next ELSE lastNotif
                 /\ twin' = Twin(r2.next, Bump(twin.stats, r2.incs), r2.taps)
    /\ rounds' = rounds + 1
    /\ UNCHANGED <<running, budget, wvars, cvars, prev, ivars, templates,
                   template_dir, found, twin_dir, nvars>>

\* an iteration in which the same device call raises in both engines:
\* lines 128-139, then both threads end
PairException ==
    /\ running
    /\ rounds < budget
    /\ state \in state_actions
    /\ \E incs \in RaisePoints(state), incs2 \in RaisePoints(twin.state) :
          /\ state = twin.state => incs = incs2
          /\ stats' = [Bump(stats, incs) EXCEPT !["errors"] = @ + 1]
          /\ twin' = Twin("IDLE", [Bump(twin.stats, incs2) EXCEPT !["errors"] = @ + 1],
                          <<>>)
    /\ last' = Invocation(state, NoObs, "-", <<>>, stats, TRUE)
    /\ state' = "IDLE"
    /\ running' = FALSE
    /\ lastNotif' = IF signals THEN "IDLE" ELSE lastNotif
    /\ rounds' = rounds + 1
    /\ UNCHANGED <<budget, wvars, cvars, prev, ivars, templates, template_dir,
                   found, twin_dir, nvars>>

PairNext ==
    \/ PairStart
    \/ PairIteration
    \/ PairException

PairSpec == PairInit /\ [][PairNext]_vars

(***************************************************************************)
(* The engine driven through the window: MainWindow.start_bot and          *)
(* MainWindow.stop_bot, the slots of the two buttons.  A disabled button   *)
(* emits no click.  Each slot runs on the GUI thread and is one step,      *)
(* the call of BotEngine.start or BotEngine.stop included; the workers     *)
(* take the steps of _bot_loop in between.                                 *)
(***************************************************************************)
\* start_bot: `if self.bot_engine.start():` disable start, enable stop
StartBot ==
    /\ start_button
    /\ cpc = "idle"
    /\ running \/ \E w \in Workers : ~Alive(w)
    /\ cop' = "start"
    /\ cflag' = running
    /\ stopped' = FALSE
    /\ IF running
       THEN /\ cret' = FALSE
            /\ cdid' = <<>>
            /\ UNCHANGED <<running, state, wpc, wraised, werr, newest, gvars>>
       ELSE \E connected \in BOOLEAN :
               IF connected
               THEN LET w == CHOOSE v \in Workers :
                                 ~Alive(v) /\ \A u \in Workers : u < v => Alive(u)
                    IN  /\ running' = TRUE
                        /\ state' = "STARTING"
                        /\ wpc' = [wpc EXCEPT ![w] = "test"]
                        /\ wraised' = [wraised EXCEPT ![w] = FALSE]
                        /\ werr' = [werr EXCEPT ![w] = 0]
                        /\ newest' = w
                        /\ cdid' = <<"flag", "state", "spawn">>
                        /\ cret' = TRUE
                        /\ start_button' = FALSE
                        /\ stop_button' = TRUE
               ELSE /\ cret' = FALSE
                    /\ cdid' = IF signals THEN <<"error">> ELSE <<>>
                    /\ UNCHANGED <<running, state, wpc, wraised, werr, newest, gvars>>
    /\ UNCHANGED <<stats, lastNotif, rounds, budget, wcur, wnext, wctr, wtmp, wtaps,
                   cpc, fvars, ivars, templates, template_dir, found, twin,
                   twin_dir, loaded, replaced>>

\* stop_bot: `if self.bot_engine.stop():` enable start, disable stop
StopBot ==
    /\ stop_button
    /\ cpc = "idle"
    /\ cop' = "stop"
    /\ cflag' = running
    /\ IF running
       THEN /\ running' = FALSE
            /\ state' = "IDLE"
            /\ cdid' = <<"flag", "state">>
            /\ cret' = TRUE
            /\ stopped' = TRUE
            /\ start_button' = TRUE
            /\ stop_button' = FALSE
       ELSE /\ cret' = FALSE
            /\ cdid' = <<>>
            /\ UNCHANGED <<running, state, stopped, gvars>>
    /\ newest' = 0
    /\ UNCHANGED <<stats, lastNotif, rounds, budget, wvars, cpc, fvars, ivars,
                   templates, template_dir, found, twin, twin_dir, loaded, replaced>>

GuiNext ==
    \/ StartBot
    \/ StopBot
    \/ \E w \in Workers : WorkerStep(w)

GuiSpec == Init /\ [][GuiNext]_vars

(***************************************************************************)
(* The claims.                                                             *)
(***************************************************************************)

\* C1: at most one worker loop is alive at any time, so that no two state
\* handlers ever execute at the same moment (the claim, stated by what it
\* concludes: at most one worker is inside a handler).
C1_NoConcurrentHandlers ==
    Cardinality({w \in Workers : InHandler(w)}) <= 1

\* C2: once a start() has set the run flag (and, from then on, written
\* STARTING), no step of a worker other than the one this start() spawns
\* clears the flag or writes the state, until the next start() or stop().
C2_PreviousWorkerLeavesNewRun ==
    [][\A w \in Workers :
          (cop = "start" /\ Did("flag") /\ w # newest /\ wpc'[w] # wpc[w])
          => /\ running' = running
             /\ Did("state") => state' = state]_vars

\* every worker has ended, the flag is clear, the state is IDLE and the last
\* state_changed signal carried IDLE
Quiet ==
    /\ \A w \in Workers : ~Alive(w)
    /\ ~running
    /\ state = "IDLE"
    /\ lastNotif = "IDLE"

\* C3: after a stop() that returned True, unless start() is called again,
\* every worker eventually ends, and from then on the run flag is clear, the
\* state is IDLE and the last state_changed signal carried IDLE.
C3_StopQuiesces ==
    /\ stopped ~> (~stopped \/ Quiet)
    /\ [][(stopped /\ Quiet /\ stopped') => Quiet']_vars

\* C3 witness: a stop() returned True while a worker was inside a handler,
\* and the engine has come to rest since.
C3_Witness ==
    stopped /\ Quiet /\ rounds > 0 /\ cop = "stop" /\ cret

\* C4: while a worker is alive, the state is written by no thread other
\* than a worker: every step that changes the state is a worker's step.
C4_OnlyWorkerWritesState ==
    [][(state' # state /\ \E w \in Workers : Alive(w))
          => \E w \in Workers : wpc'[w] # wpc[w]]_vars

\* the controlling thread's step of a call that returns at once
ReturnsAtOnce == cpc = "idle" /\ cpc' = "idle" /\ cvars' # cvars

\* C5: a start() made with the flag clear whose check_connection() fails
\* returns False, emits exactly one error signal, spawns no worker, leaves
\* the run flag clear and changes neither the state nor the statistics.
C5_FailedCheckRejected ==
    [][(cpc = "start_check" /\ cpc' = "idle")
          => /\ cret' = FALSE
             /\ cdid' = <<"error">>
             /\ newest' = 0
             /\ ~running /\ ~running'
             /\ UNCHANGED <<state, stats, wpc, lastNotif>>]_vars

\* C5 witness: such a start() has returned, while an earlier worker was
\* still ending.
C5_Witness ==
    /\ cpc = "idle" /\ cop = "start" /\ ~cflag
    /\ ~cret /\ cdid = <<"error">>
    /\ \E w \in Workers : Alive(w)

\* C6 as claimed: a start() made while the run flag is set returns False,
\* emits an error signal, spawns nothing and changes nothing.
C6_RunningRejectedWithError ==
    [][(ReturnsAtOnce /\ cop' = "start")
          => /\ running
             /\ cret' = FALSE
             /\ cdid' = <<"error">>
             /\ newest' = 0
             /\ UNCHANGED <<running, state, stats, wpc, lastNotif>>]_vars

\* C6 as amended: a start() made while the run flag is set returns False
\* and does nothing else: it emits no signal, spawns no worker and changes
\* neither the state, the run flag nor the statistics.
C6_RunningRejectedSilently ==
    [][(ReturnsAtOnce /\ cop' = "start")
          => /\ running
             /\ cret' = FALSE
             /\ cdid' = <<>>
             /\ newest' = 0
             /\ UNCHANGED <<running, state, stats, wpc, lastNotif>>]_vars

\* C6 witness: start() was rejected while a worker was in its loop.
C6_Witness ==
    /\ cpc = "idle" /\ cop = "start" /\ cflag /\ ~cret
    /\ running
    /\ \E w \in Workers : InLoop(w)

\* C7: stop() returns True iff the flag was set when it was called, and then
\* it cleared the flag and wrote the state; a stop() made with the flag clear
\* returns False and changes nothing.  start() returns True iff it set the
\* flag and spawned a worker, and a start() that returns False did neither.
C7_ReturnTellsEffect ==
    /\ []((cpc = "idle" /\ cop = "stop")
            => /\ cret <=> cflag
               /\ cdid = IF cret THEN <<"flag", "state">> ELSE <<>>)
    /\ []((cpc = "idle" /\ cop = "start")
            => /\ cret <=> (Did("flag") /\ Did("spawn"))
               /\ cret <=> newest # 0
               /\ ~cret => ~Did("flag") /\ ~Did("state") /\ ~Did("spawn"))
    /\ [][(ReturnsAtOnce /\ cop' = "stop")
            => /\ ~running
               /\ cret' = FALSE
               /\ UNCHANGED <<running, state, stats, wpc, lastNotif>>]_vars

\* C7 witness: a stop() returned False after the worker had ended on its own
\* (it caught an exception).
C7_Witness ==
    /\ cpc = "idle" /\ cop = "stop" /\ ~cret /\ ~cflag
    /\ stats["errors"] > 0
    /\ \A w \in Workers : ~Alive(w)

\* C8: no step decreases a statistic.
C8_StatsNeverDecrease ==
    [][\A n \in StatNames : stats'[n] >= stats[n]]_vars

\* the table of section 4.4: handler -> the states it may return
TransitionTable ==
    [IDLE |-> {"IDLE"},
     STARTING |-> {"CONNECTION_LOST", "SELECTING_BATTLE", "CONFIRMING_BATTLE",
                   "IN_BATTLE", "BATTLE_ENDED", "STARTING"},
     SELECTING_BATTLE |-> {"CONFIRMING_BATTLE"},
     CONFIRMING_BATTLE |-> {"IN_BATTLE", "CONNECTION_LOST", "ERROR"},
     IN_BATTLE |-> {"BATTLE_ENDED", "CONNECTION_LOST", "STARTING"},
     BATTLE_ENDED |-> {"STARTING", "ERROR"},
     CONNECTION_LOST |-> {"RECONNECTING", "ERROR"},
     RECONNECTING |-> {"SELECTING_BATTLE", "CONFIRMING_BATTLE", "BATTLE_ENDED",
                       "IN_BATTLE", "STARTING"},
     ERROR |-> {"STARTING"}]

\* C9: whenever a worker holds a handler's return value, the pair (state
\* whose handler was looked up, value returned) is a transition of the
\* table; so is every state change it then applies.
C9_TransitionsInTable ==
    \A w \in Workers :
        wpc[w] = "cmp" => wcur[w] \in BotState /\ wnext[w] \in TransitionTable[wcur[w]]

\* C9 witness: the CONNECTION_LOST handler returned RECONNECTING and the
\* worker is about to apply it.
C9_Witness ==
    \E w \in Workers :
        /\ wpc[w] = "cmp"
        /\ wcur[w] = "CONNECTION_LOST" /\ wnext[w] = "RECONNECTING"
        /\ wnext[w] # state

\* C10: a worker that caught an exception adds exactly 1 to errors, emits
\* exactly one error signal, and ends by emitting state_changed with IDLE.
C10_ExceptionEndsInIdle ==
    [][\A w \in Workers :
          /\ (wpc[w] = "exc_write" /\ wpc'[w] = "fin_clear")
                => stats'["errors"] = stats["errors"] + 1 /\ werr'[w] = 1
          /\ (wraised[w] /\ wpc[w] = "fin_emit" /\ wpc'[w] = "none")
                => lastNotif' = "IDLE" /\ werr[w] = 1]_vars

\* C11 as claimed: a worker that caught an exception (state ERROR, errors
\* incremented, error signal emitted) goes back to the loop test with the run
\* flag still set, so that the ERROR handler runs next.
C11_LoopContinuesAfterException ==
    [][\A w \in Workers :
          (wraised[w] /\ wpc[w] = "exc_write" /\ wpc'[w] # wpc[w])
          => wpc'[w] = "test" /\ running' = running]_vars

\* C11 as amended: a worker that caught an exception never comes back into
\* the loop: its only further steps are those of the except and finally
\* blocks, in which it clears the run flag and writes IDLE, and then it ends.
C11_ExceptionEndsWorker ==
    [][\A w \in Workers :
          (wraised[w] /\ wpc'[w] # wpc[w])
          => /\ <<wpc[w], wpc'[w]>> \in
                   {<<"exc", "exc_read">>, <<"exc_read", "exc_write">>,
                    <<"exc_write", "fin_clear">>, <<"fin_clear", "fin_state">>,
                    <<"fin_state", "fin_emit">>, <<"fin_emit", "none">>}
             /\ wpc[w] = "exc" => state' = "ERROR"
             /\ wpc[w] = "fin_clear" => ~running'
             /\ wpc[w] = "fin_state" => state' = "IDLE"]_vars

\* C11 witness: a worker that caught an exception is about to end, with the
\* run flag clear and the state IDLE: no ERROR handler ran.
C11_Witness ==
    \E w \in Workers :
        /\ wraised[w] /\ wpc[w] = "fin_emit"
        /\ ~running /\ state = "IDLE" /\ stats["errors"] = 1
        /\ rounds = 1

\* capture_screen() gave the handler no screenshot (None or empty bytes)
NoScreenshot(c) == c \in {NoCapture, EmptyCapture}

\* the last invocation returned, and the capture it made gave no screenshot
LastHadNoScreenshot == last.handled # "-" /\ ~last.raised /\ NoScreenshot(last.obs.c)

\* C12 as claimed: a handler whose capture yields no screenshot returns
\* ERROR, whichever handler it is.
C12_NoScreenshotGivesError ==
    LastHadNoScreenshot => last.next = "ERROR" /\ state = "ERROR"

\* C12 as amended: with no screenshot, the handlers of BATTLE_ENDED and
\* CONNECTION_LOST, and CONFIRMING_BATTLE at its re-check, return ERROR;
\* the handler of STARTING returns STARTING without a tap; IN_BATTLE at its
\* re-check makes the four emergency taps and returns STARTING.
C12_NoScreenshotOutcome ==
    LastHadNoScreenshot =>
        /\ last.handled \in {"STARTING", "CONFIRMING_BATTLE", "IN_BATTLE",
                             "BATTLE_ENDED", "CONNECTION_LOST"}
        /\ state = last.next
        /\ last.handled \in {"CONFIRMING_BATTLE", "BATTLE_ENDED", "CONNECTION_LOST"}
              => last.next = "ERROR"
        /\ last.handled = "STARTING"
              => last.next = "STARTING" /\ last.taps = <<>>
        /\ last.handled = "IN_BATTLE"
              => /\ last.next = "STARTING"
                 /\ last.taps = <<click_coords.auto_battle>> \o perform_emergency_clicks
        /\ last.handled \in {"CONFIRMING_BATTLE", "IN_BATTLE"} => last.obs.ra = "-"

\* C12 witness: the re-check capture of IN_BATTLE failed and the engine is
\* back in STARTING.
C12_Witness ==
    /\ last.handled = "IN_BATTLE" /\ LastHadNoScreenshot
    /\ last.obs.c = NoCapture
    /\ state = "STARTING" /\ lastNotif = "STARTING"

\* some candidate of the call matches the screenshot polled last
MatchOnScreen ==
    captured /\ \E i \in DOMAIN call.image_list : find_in_screen(screen_data, call.image_list[i])

\* C13: wait_for_images never polls again after a screenshot on which a
\* candidate matched and never sleeps on one; the name it returns is the
\* candidate of smallest index among those matching the screenshot polled
\* last, and it returns (None, None) only when that screenshot matches none.
C13_FirstMatchInListOrder ==
    /\ ~missed
    /\ ipc = "sleep" => ~MatchOnScreen
    /\ result = "-" => ~MatchOnScreen
    /\ result \notin {"?", "-"} =>
          /\ captured
          /\ \E i \in DOMAIN call.image_list :
                /\ call.image_list[i] = result
                /\ find_in_screen(screen_data, call.image_list[i])
                /\ \A j \in 1..(i - 1) : ~find_in_screen(screen_data, call.image_list[j])

\* C13 witness: after an earlier poll that matched nothing, a screenshot
\* showing both candidates was polled and the first of the list returned.
C13_Witness ==
    /\ ipc = "done"
    /\ call.image_list = <<"victory.png", "defeat.png">>
    /\ screen_data = Image({"victory.png", "defeat.png"})
    /\ result = "victory.png"
    /\ now - start_time > MaxLatency

\* the time since the call was made
Elapsed == now - start_time

C15_FailedCaptureSkipped ==
    [][/\ (ipc = "poll" /\ screen_data' = NoCapture)
             => ipc' = "sleep" /\ result' = "?"
       /\ (ipc = "sleep" /\ screen_data = NoCapture)
             => ipc' = "test" /\ now' = now + call.check_interval /\ result' = "?"
       /\ ipc' = "match" => screen_data' # NoCapture
       /\ (ipc = "match" /\ failed /\ MatchOnScreen)
             => ipc' = "ret" /\ result' \in Range(call.image_list)]_vars

\* C15 witness: a call in which a capture failed has returned a match.
C15_Witness ==
    /\ ipc = "done" /\ failed
    /\ result \in Range(call.image_list)
    /\ MatchOnScreen

\* C16: every wait_for_images call a handler makes returns, and every
\* handler invocation returns to the loop, whatever the captures give.
C16_HandlersTerminate ==
    /\ (ipc = "test") ~> (ipc = "ret")
    /\ (ipc # "idle") ~> (ipc = "done")

\* C16 witness: the RECONNECTING handler has returned after its three waits
\* all ran to their timeout.
C16_Witness ==
    /\ ipc = "done"
    /\ call = WaitCall(<<"auto_battle.png">>, 5, 1)
    /\ result = "-"
    /\ now >= 15

\* invocation i is one of the STARTING handler whose screenshot shows the
\* selecting-battle marker and no connection-issue marker
StartingSawSelecting(i) ==
    /\ i.handled = "STARTING" /\ ~i.raised
    /\ find_in_screen(i.obs.c, "cheak.png")
    /\ ~check_connection_issues(i.obs.c)

\* C17: such an invocation of the STARTING handler taps nothing, changes no
\* statistic and leaves the engine in SELECTING_BATTLE; the invocation that
\* follows is the SELECTING_BATTLE handler's, after which the engine is in
\* CONFIRMING_BATTLE with, since STARTING was left, exactly one tap, at
\* (1227, 832), and no statistic changed; the SELECTING_BATTLE handler
\* observes nothing.
C17_StartingToConfirming ==
    /\ StartingSawSelecting(last)
          => state = "SELECTING_BATTLE" /\ last.taps = <<>> /\ stats = last.before
    /\ (StartingSawSelecting(prev) /\ ~last.raised)
          => /\ last.handled = "SELECTING_BATTLE"
             /\ state = "CONFIRMING_BATTLE"
             /\ prev.taps \o last.taps = << <<1227, 832>> >>
             /\ click_coords.start_battle = <<1227, 832>>
             /\ stats = prev.before
    /\ (last.handled = "SELECTING_BATTLE" /\ ~last.raised)
          => last.obs = NoObs /\ last.next = "CONFIRMING_BATTLE"

\* C17 witness: the engine has gone STARTING, SELECTING_BATTLE,
\* CONFIRMING_BATTLE from a screenshot that also shows other markers.
C17_Witness ==
    /\ StartingSawSelecting(prev)
    /\ "confirm_battle.png" \in prev.obs.c.shows
    /\ last.handled = "SELECTING_BATTLE"
    /\ state = "CONFIRMING_BATTLE" /\ lastNotif = "CONFIRMING_BATTLE"

\* invocation i is one of the CONFIRMING_BATTLE handler whose wait for
\* auto_battle.png timed out
ConfirmTimedOut(i) ==
    i.handled = "CONFIRMING_BATTLE" /\ ~i.raised /\ i.obs.ra = "-"

\* C18: when the wait of CONFIRMING_BATTLE timed out and the re-check
\* screenshot shows a connection-issue marker, the engine is in
\* CONNECTION_LOST with battles_started one higher and nothing else changed;
\* the next invocation is the CONNECTION_LOST handler's, after which the
\* engine has left CONNECTION_LOST with connection_losses and
\* battles_started both exactly one higher than before the CONFIRMING_BATTLE
\* invocation.  With no marker on the re-check the engine is in ERROR.
C18_ConfirmTimeoutToConnectionLost ==
    /\ (ConfirmTimedOut(last) /\ check_connection_issues(last.obs.c))
          => /\ state = "CONNECTION_LOST"
             /\ stats = [last.before EXCEPT !["battles_started"] = @ + 1]
    /\ (ConfirmTimedOut(last) /\ ~check_connection_issues(last.obs.c))
          => state = "ERROR"
    /\ (ConfirmTimedOut(prev) /\ check_connection_issues(prev.obs.c))
          => /\ last.handled = "CONNECTION_LOST"
             /\ state # "CONNECTION_LOST"
             /\ stats["connection_losses"] = prev.before["connection_losses"] + 1
             /\ stats["battles_started"] = prev.before["battles_started"] + 1
             /\ ~last.raised =>
                   stats = [prev.before EXCEPT !["battles_started"] = @ + 1,
                                               !["connection_losses"] = @ + 1]

\* C18 witness: after such a CONFIRMING_BATTLE invocation, whose re-check
\* showed contact_us.png, the CONNECTION_LOST handler has run and the engine
\* is in RECONNECTING.
C18_Witness ==
    /\ ConfirmTimedOut(prev)
    /\ prev.obs.c = Image({"contact_us.png"})
    /\ last.handled = "CONNECTION_LOST"
    /\ state = "RECONNECTING"
    /\ stats["connection_losses"] = 1 /\ stats["battles_started"] = 1

\* C19: when the wait of IN_BATTLE timed out and the re-check shows no
\* connection-issue marker, the invocation has tapped auto_battle and then
\* (49,50), (588,825), (743,819), (215,826) in this order, each of the four
\* followed by a sleep, has changed no statistic and leaves the engine in
\* STARTING.
C19_StuckBattleEmergencyTaps ==
    (/\ last.handled = "IN_BATTLE" /\ ~last.raised
     /\ last.obs.ra = "-"
     /\ ~check_connection_issues(last.obs.c))
    => /\ last.taps = <<click_coords.auto_battle,
                        <<49, 50>>, <<588, 825>>, <<743, 819>>, <<215, 826>> >>
       /\ Len(emergency_delays) = 4
       /\ \A i \in DOMAIN emergency_delays : emergency_delays[i] > 0
       /\ state = "STARTING"
       /\ stats = last.before

\* C19 witness: such an invocation, with a re-check screenshot that shows
\* nothing, has brought the engine back to STARTING.
C19_Witness ==
    /\ last.handled = "IN_BATTLE" /\ ~last.raised
    /\ last.obs.ra = "-" /\ last.obs.c = Image({})
    /\ Len(last.taps) = 5
    /\ state = "STARTING" /\ lastNotif = "STARTING"

\* C20: when the screenshot of BATTLE_ENDED shows defeat.png and not
\* victory.png, defeats is one higher and no other statistic changed, the
\* taps are (743,819) (exit_after_win) then (215,826) (refresh_opponents),
\* and the engine is in STARTING.
C20_DefeatCountedOnce ==
    (/\ last.handled = "BATTLE_ENDED" /\ ~last.raised
     /\ find_in_screen(last.obs.c, "defeat.png")
     /\ ~find_in_screen(last.obs.c, "victory.png"))
    => /\ stats = [last.before EXCEPT !["defeats"] = @ + 1]
       /\ last.taps = << <<743, 819>>, <<215, 826>> >>
       /\ last.taps = <<click_coords.exit_after_win, click_coords.refresh_opponents>>
       /\ state = "STARTING"

\* C20 witness: a defeat has been counted and the engine is in STARTING.
C20_Witness ==
    /\ last.handled = "BATTLE_ENDED" /\ ~last.raised
    /\ last.obs.c = Image({"defeat.png"})
    /\ stats["defeats"] = 1 /\ stats["victories"] = 0
    /\ state = "STARTING"

\* C22: find_in_screen is deterministic: a call returns what a call with
\* the same screen bytes, template name and threshold returns on a matcher
\* of the same template files whose cache is still empty, so a cache-filling
\* call and a later cache-hit call with the same inputs agree.
C22_FindDeterministic ==
    found.name # "-" =>
        found.location =
            FindInScreen(found.data, found.name, found.threshold,
                         NoTemplates, template_dir).location

\* a call that took its template from the cache and matched
C22_Witness ==
    /\ found.name # "-"
    /\ found.cached
    /\ found.location.matched

\* the offsets at which the template of the last call fits its screenshot
FoundOffsets ==
    0..(Len(imdecode(found.data)) - Len(imread(template_dir, found.name)))

FoundScore(x) ==
    Score(imdecode(found.data), imread(template_dir, found.name), x)

\* the last call decoded its screenshot and loaded its template
FoundCompared ==
    /\ found.name # "-"
    /\ imdecode(found.data) # NoImage
    /\ imread(template_dir, found.name) # NoImage

\* C23: find_in_screen reports a match exactly when the best score over all
\* offsets is >= the threshold (a score equal to the threshold matches), and
\* the location it returns is an offset of that best score; below the
\* threshold it returns no match.
C23_MatchIffBestAtLeastThreshold ==
    FoundCompared =>
        /\ found.location.matched <=>
              \E x \in FoundOffsets : FoundScore(x) >= found.threshold
        /\ found.location.matched =>
              /\ found.location.x \in FoundOffsets
              /\ \A y \in FoundOffsets : FoundScore(y) <= FoundScore(found.location.x)

\* a match whose best score is equal to the threshold
C23_Witness ==
    /\ FoundCompared
    /\ found.location.matched
    /\ FoundScore(found.location.x) = found.threshold
    /\ found.threshold < 100

\* C21: a template that cannot be loaded (file missing or undecodable) is,
\* for control flow, a template that never matches: two engines shown the
\* same screenshots, one unable to load a template that the other loads but
\* never finds, are always in the same state, with the same counters, and
\* issued the same taps in their last handler invocation.
C21_UnloadableAsNoMatch ==
    /\ twin.state = state
    /\ twin.stats = stats
    /\ twin.taps = last.taps

\* the first engine, whose waiting_for_server.png is missing, confirmed a
\* battle, counted it, waited in vain for the in-battle marker and looked
\* for the connection markers on the re-check screenshot
C21_Witness ==
    /\ twin_dir # template_dir
    /\ template_dir["waiting_for_server.png"] = MissingFile
    /\ last.handled = "CONFIRMING_BATTLE"
    /\ last.next = "ERROR"
    /\ stats.battles_started = last.before.battles_started + 1
    /\ last.taps = <<click_coords.confirm_battle>>

\* the markers on the screenshot the last invocation took itself
LastShows == IF last.obs.c.kind = "img" THEN last.obs.c.shows ELSE {}

\* C24: the Starting handler takes exactly one screenshot per invocation and
\* classifies it by a fixed priority: a connection-issue marker
\* (waiting-for-server or contact-us) gives ConnectionLost, else the
\* selecting marker SelectingBattle, else the confirm marker
\* ConfirmingBattle, else the in-battle marker InBattle, else victory or
\* defeat BattleEnded, else Starting; it issues no tap and changes no counter.
C24_StartingClassifiesByPriority ==
    (last.handled = "STARTING" /\ ~last.raised) =>
        /\ last.obs.c # NotTaken
        /\ last.obs.ra = NoWait /\ last.obs.rb = NoWait /\ last.obs.rc = NoWait
        /\ last.next =
              IF LastShows \cap {"waiting_for_server.png", "contact_us.png"} # {}
              THEN "CONNECTION_LOST"
              ELSE IF "cheak.png" \in LastShows THEN "SELECTING_BATTLE"
              ELSE IF "confirm_battle.png" \in LastShows THEN "CONFIRMING_BATTLE"
              ELSE IF "auto_battle.png" \in LastShows THEN "IN_BATTLE"
              ELSE IF LastShows \cap {"victory.png", "defeat.png"} # {}
              THEN "BATTLE_ENDED"
              ELSE "STARTING"
        /\ state = last.next
        /\ last.taps = <<>>
        /\ stats = last.before

\* a screenshot with the contact-us, the selecting and the victory marker:
\* the connection issue decides
C24_Witness ==
    /\ last.handled = "STARTING"
    /\ ~last.raised
    /\ {"contact_us.png", "cheak.png", "victory.png"} \subseteq LastShows
    /\ "waiting_for_server.png" \notin LastShows
    /\ last.next = "CONNECTION_LOST"

\* the three waits of the Reconnecting handler
Phase(n) == HandlerWaits("RECONNECTING")[n]

\* the state the results w of the waits of Reconnecting stand for
CascadeOutcome(w) ==
    IF w[1] = "cheak.png" THEN "SELECTING_BATTLE"
    ELSE IF w[1] = "confirm_battle.png" THEN "CONFIRMING_BATTLE"
    ELSE IF Len(w) >= 2 /\ w[2] \in {"victory.png", "defeat.png"} THEN "BATTLE_ENDED"
    ELSE IF Len(w) >= 3 /\ w[3] = "auto_battle.png" THEN "IN_BATTLE"
    ELSE "STARTING"

\* C25: the Reconnecting handler makes its three bounded waits strictly in
\* order and stops at the first that matches: a wait is begun only when all
\* waits before it timed out; a wait ends without a match only when its
\* timeout has passed, whatever markers of later waits its screenshots
\* show, and with a match only on a marker of its own list (the selecting
\* marker before the confirm marker); the handler returns SelectingBattle
\* or ConfirmingBattle from wait (a), BattleEnded from wait (b), InBattle
\* from wait (c), and Starting when all three timed out.
C25_ReconnectCascadeInOrder ==
    handler = "RECONNECTING" =>
        /\ Len(waited) <= 3
        /\ ipc \in {"test", "poll", "match", "sleep", "ret"} =>
              call = Phase(Len(waited) + 1)
        /\ \A i \in DOMAIN waited :
              (i < Len(waited) \/ ipc # "done") => waited[i] = "-"
        /\ (ipc = "ret" /\ result = "-") => now - start_time >= call.timeout
        /\ (ipc = "ret" /\ result # "-") =>
              /\ result = FirstFound(screen_data, call.image_list)
              /\ result \in screen_data.shows
        /\ ipc = "done" =>
              /\ waited # <<>>
              /\ \A i \in DOMAIN waited : waited[i] \in Range(Phase(i).image_list) \cup {"-"}
              /\ hret = CascadeOutcome(waited)
              /\ (Len(waited) < 3) => waited[Len(waited)] # "-"

\* wait (a) ran to its timeout although the screenshot it polled last
\* showed the victory marker of wait (b)
C25_Witness ==
    /\ handler = "RECONNECTING"
    /\ call = Phase(1)
    /\ ipc = "ret"
    /\ result = "-"
    /\ screen_data.kind = "img"
    /\ "victory.png" \in screen_data.shows

\* the statistics other than n are what they were before the last invocation
OnlyChanged(n) == \A k \in StatNames \ {n} : stats[k] = last.before[k]

\* C26: each invocation of the ConnectionLost handler increments
\* connection_losses by exactly 1 before any capture (so also when a later
\* device call raises); then, if the contact-us marker is on the first
\* screenshot or on a screenshot polled within the bounded wait, it issues
\* exactly one tap, at reconnect_button, and returns Reconnecting, and if
\* the marker never appears it issues no tap and returns Error.
C26_ConnectionLostCountsThenReconnects ==
    last.handled = "CONNECTION_LOST" =>
        /\ stats.connection_losses = last.before.connection_losses + 1
        /\ ~last.raised =>
              /\ OnlyChanged("connection_losses")
              /\ IF "contact_us.png" \in LastShows \/ last.obs.ra = "contact_us.png"
                 THEN /\ last.next = "RECONNECTING"
                      /\ last.taps = <<click_coords.reconnect_button>>
                 ELSE /\ last.next = "ERROR"
                      /\ last.taps = <<>>

\* the marker was not on the first screenshot and appeared within the wait
C26_Witness ==
    /\ last.handled = "CONNECTION_LOST"
    /\ ~last.raised
    /\ last.obs.c = Image({})
    /\ last.obs.ra = "contact_us.png"
    /\ last.next = "RECONNECTING"
    /\ stats.connection_losses = 1

\* C27: in the InBattle handler the recovery is ordered: a victory or defeat
\* marker found within the wait gives BattleEnded with the single
\* auto_battle tap; on timeout a connection-issue marker on the re-check
\* screenshot gives ConnectionLost and none of the four emergency taps; the
\* emergency taps are issued only when the wait timed out and the connection
\* check reported no issue, and then the handler returns Starting.
C27_InBattleRecoveryOrder ==
    (last.handled = "IN_BATTLE" /\ ~last.raised) =>
        IF last.obs.ra # "-"
        THEN /\ last.obs.ra \in {"victory.png", "defeat.png"}
             /\ last.next = "BATTLE_ENDED"
             /\ last.taps = <<click_coords.auto_battle>>
        ELSE IF LastShows \cap {"waiting_for_server.png", "contact_us.png"} # {}
        THEN /\ last.next = "CONNECTION_LOST"
             /\ last.taps = <<click_coords.auto_battle>>
        ELSE /\ last.next = "STARTING"
             /\ last.taps = <<click_coords.auto_battle, <<49, 50>>, <<588, 825>>,
                              <<743, 819>>, <<215, 826>> >>

\* the wait timed out and the re-check screenshot showed a connection issue
C27_Witness ==
    /\ last.handled = "IN_BATTLE"
    /\ ~last.raised
    /\ last.obs.ra = "-"
    /\ "waiting_for_server.png" \in LastShows
    /\ last.next = "CONNECTION_LOST"
    /\ Len(last.taps) = 1

\* C28: in the BattleEnded handler the victory marker has precedence over
\* the defeat marker: a screenshot that matches victory, whether or not it
\* also matches defeat, increases victories by exactly 1, leaves defeats
\* unchanged and gives exactly one tap, at exit_after_win; a screenshot that
\* matches neither gives Starting with no tap and no counter change; and in
\* no invocation do both victories and defeats change.
C28_VictoryBeforeDefeat ==
    last.handled = "BATTLE_ENDED" =>
        /\ ~(stats.victories # last.before.victories
                /\ stats.defeats # last.before.defeats)
        /\ (~last.raised /\ "victory.png" \in LastShows) =>
              /\ stats.victories = last.before.victories + 1
              /\ OnlyChanged("victories")
              /\ last.taps = <<click_coords.exit_after_win>>
              /\ last.next = "STARTING"
        /\ (~last.raised /\ Truthy(last.obs.c)
                /\ LastShows \cap {"victory.png", "defeat.png"} = {}) =>
              /\ last.next = "STARTING"
              /\ last.taps = <<>>
              /\ stats = last.before

\* a screenshot with both markers was counted as a victory
C28_Witness ==
    /\ last.handled = "BATTLE_ENDED"
    /\ ~last.raised
    /\ {"victory.png", "defeat.png"} \subseteq LastShows
    /\ stats.victories = 1
    /\ stats.defeats = 0

\* C29: whenever the worker runs the Error handler the next state is
\* Starting, no tap is issued and no counter changes; errors is not
\* incremented by a handler that returns (Error included), only when an
\* exception is caught at the loop boundary; hence the engine does not stay
\* in Error for more than one handler invocation.
C29_ErrorHandlerOnlyRestarts ==
    /\ (last.handled = "ERROR" /\ ~last.raised) =>
          /\ last.next = "STARTING"
          /\ state = "STARTING"
          /\ last.taps = <<>>
          /\ stats = last.before
    /\ stats.errors # last.before.errors =>
          /\ last.raised
          /\ stats.errors = last.before.errors + 1
    /\ ~(prev.handled = "ERROR" /\ last.handled = "ERROR")

\* a handler returned Error without errors being counted, and the Error
\* handler that ran next went back to Starting
C29_Witness ==
    /\ prev.next = "ERROR"
    /\ ~prev.raised
    /\ last.handled = "ERROR"
    /\ state = "STARTING"
    /\ stats.errors = 0

\* the counters a handler increments, errors aside (the loop's own)
LastChanged == {n \in StatNames \ {"errors"} : stats[n] # last.before[n]}

\* the counters the handler of state s may increment
CountersOf(s) ==
    CASE s = "CONFIRMING_BATTLE" -> {"battles_started"}
      [] s = "BATTLE_ENDED" -> {"victories", "defeats"}
      [] s = "CONNECTION_LOST" -> {"connection_losses"}
      [] OTHER -> {}

\* C30: each handler invocation increments at most one counter, by exactly
\* 1: ConfirmingBattle only battles_started, and on every invocation that
\* returns, whether or not the battle then starts; BattleEnded only
\* victories or only defeats; ConnectionLost only connection_losses; every
\* other handler none.  An invocation that returns leaves errors alone.
C30_OneCounterPerInvocation ==
    last.handled # "-" =>
        /\ Cardinality(LastChanged) <= 1
        /\ LastChanged \subseteq CountersOf(last.handled)
        /\ \A n \in LastChanged : stats[n] = last.before[n] + 1
        /\ ~last.raised =>
              /\ stats.errors = last.before.errors
              /\ last.handled = "CONFIRMING_BATTLE" => LastChanged = {"battles_started"}
              /\ last.handled = "CONNECTION_LOST" => LastChanged = {"connection_losses"}

\* a battle that was confirmed and counted although it did not start
C30_Witness ==
    /\ last.handled = "CONFIRMING_BATTLE"
    /\ ~last.raised
    /\ last.next = "ERROR"
    /\ stats.battles_started = last.before.battles_started + 1
    /\ OnlyChanged("battles_started")

\* no entry of the cache is removed or replaced in the step
CacheKept ==
    \A n \in Templates : templates[n] # NoImage => templates'[n] = templates[n]

\* the step is a call of load_template
LoadStep ==
    /\ template_dir' = template_dir
    /\ loaded'.name # "-"
    /\ loaded' # loaded \/ templates' # templates

\* C31: the template cache only grows: an entry is never removed or
\* replaced, and a load of a cached name returns that entry whatever the
\* file holds by then; a load that fails (file missing or undecodable) adds
\* no entry, and a load of a name that is not cached reads the file anew,
\* caching and returning it when it is an image.
C31_CacheOnlyGrows ==
    [][/\ CacheKept
       /\ LoadStep =>
             LET n == loaded'.name
             IN  /\ templates[n] # NoImage =>
                       /\ loaded'.template = templates[n]
                       /\ templates' = templates
                 /\ (templates[n] = NoImage /\ template_dir[n].kind # "image") =>
                       /\ loaded'.template = NoImage
                       /\ templates' = templates
                 /\ (templates[n] = NoImage /\ template_dir[n].kind = "image") =>
                       /\ loaded'.template = template_dir[n].pixels
                       /\ templates' = [templates EXCEPT ![n] = template_dir[n].pixels]
      ]_vars

\* a load served from the cache after the file had been replaced: the entry
\* returned is not what the file held when the call was made
C31_Witness ==
    /\ loaded.name # "-"
    /\ loaded.cached
    /\ loaded.template # NoImage
    /\ loaded.file # ImageFile(loaded.template)
    /\ templates[loaded.name] = loaded.template

\* no call of start() or stop() is under way and every worker is at the top
\* of its loop or has ended
AtRest ==
    /\ cpc = "idle"
    /\ \A w \in Workers : wpc[w] \in {"none", "test"}

\* C32: every state change is reported: each time the state takes a new
\* value a state_changed signal carrying it is emitted, so that whenever no
\* step is in progress (and the state has changed or a signal was emitted at
\* all) the last state_changed signal carries the current state.
C32_StateChangesReported ==
    (AtRest /\ (state # "IDLE" \/ lastNotif # "-")) => lastNotif = state

\* the last call is a stop() that has cleared the run flag
StopCleared == cop = "stop" /\ Did("flag")

\* C33 as claimed: after stop() has cleared the run flag, and with no later
\* start(), no worker begins a handler invocation; only a handler already
\* in flight goes on.
C33_NoHandlerBegunAfterStop ==
    [][StopCleared =>
          \A w \in Workers : ~(wpc[w] # "pre" /\ wpc'[w] = "pre")]_vars

\* C33, amended: cancellation is observed only at the loop test: after
\* stop() has cleared the run flag, and with no later start(), no worker
\* passes the loop test again, so it begins no further iteration; the
\* iteration whose test it had passed goes on, handler included.
C33_NoIterationBegunAfterStop ==
    [][StopCleared =>
          \A w \in Workers : ~(wpc[w] = "test" /\ wpc'[w] # "test" /\ wpc'[w] # "fin_clear")]_vars

\* a worker that had passed the loop test before the flag was cleared is in
\* the Idle handler, which it looked up after stop() wrote IDLE
C33_Witness ==
    /\ StopCleared
    /\ cpc = "idle"
    /\ \E w \in Workers : wpc[w] = "pre" /\ wcur[w] = "IDLE"


\* the last call is a stop() that has returned True; no start() came since
StopReturned == cop = "stop" /\ cpc = "idle" /\ cret

\* C34: once stop() has returned True the state reads IDLE at every moment
\* until the next start(), and no state_changed signal emitted in that
\* interval carries another value.
C34_IdleAfterStop ==
    /\ [](StopReturned => state = "IDLE")
    /\ [][(StopReturned /\ lastNotif' # lastNotif) => lastNotif' = "IDLE"]_vars


\* C35: whenever the run flag is set (and no start() is between its two
\* assignments) the state is not IDLE, and no worker invokes the Idle handler.
C35_RunningNeverIdle ==
    /\ (running /\ cpc = "idle") => state # "IDLE"
    /\ \A w \in Workers : wpc[w] = "pre" => wcur[w] # "IDLE"


\* C36: in every reachable state victories + defeats <= battles_started.
C36_ResultsWithinStarts ==
    stats["victories"] + stats["defeats"] <= stats["battles_started"]


\* the states whose handlers tap
TapHandlers ==
    {"SELECTING_BATTLE", "CONFIRMING_BATTLE", "IN_BATTLE", "BATTLE_ENDED", "CONNECTION_LOST"}

\* the coordinates of the click table and of the emergency sequence
TapPoints ==
    {click_coords[k] : k \in DOMAIN click_coords} \cup Range(perform_emergency_clicks)

\* C37: a tap is issued only by a step of the SelectingBattle,
\* ConfirmingBattle, InBattle, BattleEnded or ConnectionLost handler, at a
\* coordinate of the click table or of the emergency sequence; no other
\* handler, no step of start() or stop() and no step of the loop's
\* exception and cleanup path issues one.
C37_TapsOnlyByTapHandlers ==
    [][\A w \in Workers :
          (wtaps'[w] # wtaps[w] /\ wtaps'[w] # <<>>) =>
              /\ wpc[w] \in {"pre", "post"}
              /\ wcur[w] \in TapHandlers
              /\ Range(wtaps'[w]) \subseteq TapPoints]_vars

\* the InBattle handler has issued the emergency sequence, two points of
\* which are not in the click table
C37_Witness ==
    \E w \in Workers :
        /\ wcur[w] = "IN_BATTLE"
        /\ wpc[w] = "cmp"
        /\ <<49, 50>> \in Range(wtaps[w])
        /\ <<49, 50>> \notin {click_coords[k] : k \in DOMAIN click_coords}


\* no run flag and no worker thread
EngineDown == ~running /\ \A w \in Workers : ~Alive(w)

\* a click on the stop button would enable the start button: stop() would
\* return True
StopBotEnablesStart == stop_button /\ running

\* C38: whenever the engine is not running (run flag clear, no worker alive)
\* the user can start it again through the window: the start button is
\* enabled, or a click on the stop button enables it.
C38_ControlsAllowRestart ==
    EngineDown => (start_button \/ StopBotEnablesStart)

=============================================================================
